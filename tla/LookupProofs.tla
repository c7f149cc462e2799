----------------------------- MODULE LookupProofs -----------------------------
(***************************************************************************)
(* Proofs about what the API looks up elsewhere, for any number of callers *)
(* and scans, any time-outs and any limits: the KRW price (PriceQuote),    *)
(* the fee estimates (FeeEstimates), the usage of addresses (AddressUsage) *)
(* and the transactions of a wallet (TransactionHistory).                  *)
(***************************************************************************)
EXTENDS PriceQuote, FeeEstimates, AddressUsage, TransactionHistory,
        FiniteSetTheorems, SequenceTheorems, WellFoundedInduction, TLAPS

(* A set of naturals has a least one.                                      *)
LEMMA LeastNatural ==
  ASSUME NEW T, T \subseteq Nat, T # {}
  PROVE  \E m \in T : \A n \in T : m <= n
<1> DEFINE R == OpToRel(<, Nat)
<1>1. \A m, n \in Nat : <<n, m>> \in R <=> n < m
  BY DEF OpToRel
<1>2. IsWellFoundedOn(R, Nat)
  BY NatLessThanWellFounded
<1> HIDE DEF R
<1>3. PICK m \in T : \A n \in T : ~(<<n, m>> \in R)
  BY <1>2, WFMin
<1>4. ASSUME NEW n \in T
      PROVE  m <= n
  <2>1. m \in Nat /\ n \in Nat /\ ~(n < m)
    BY <1>1, <1>3
  <2> QED BY <2>1
<1> QED BY <1>4

-----------------------------------------------------------------------------
(* The price.  The argument: a lookup under way is not older than the      *)
(* time-out, and a price in the cache was read after its age began to      *)
(* count.                                                                  *)

\* A lookup that began at this time is under way.
Flying(since) == since <= priceTime /\ priceTime <= since + PriceTimeout

\* A price that was read when its age already counted.
Priced(price) == 0 <= price.fetchedAt /\ price.fetchedAt <= price.read /\ price.read <= priceTime

PriceInv ==
  /\ PriceTypeOK
  /\ inFlight # NoFlight => Flying(inFlight)
  /\ cachedPrice = NoPrice \/ Priced(cachedPrice)
  /\ PriceIsRecent

LEMMA PriceInvariant == PriceSpec => []PriceInv
<1> USE PriceAssumption
<1>1. PriceInit => PriceInv
  BY DEF PriceInit, PriceInv, PriceTypeOK, PriceIsRecent, NoPrice, NoFlight, Told
<1>2. PriceInv /\ [PriceNext]_priceVars => PriceInv'
  <2> SUFFICES ASSUME PriceInv, [PriceNext]_priceVars PROVE PriceInv'
    OBVIOUS
  <2>1. priceTime \in 0..PriceEnd /\ inFlight \in -1..PriceEnd
    BY DEF PriceInv, PriceTypeOK
  <2>2. ASSUME NEW c \in Callers, AskPrice(c)
        PROVE  PriceInv'
    <3>1. CASE CacheHit
      BY <2>1, <2>2, <3>1 DEF AskPrice, CacheHit, Online, Told, PriceInv, PriceTypeOK, PriceIsRecent,
         PriceStaleness, Flying, Priced, NoFlight
    <3>2. CASE ~CacheHit
      BY <2>1, <2>2, <3>2 DEF AskPrice, Told, PriceInv, PriceTypeOK, PriceIsRecent, Flying, Priced, NoFlight
    <3> QED BY <3>1, <3>2
  <2>3. ASSUME UpbitAnswers
        PROVE  PriceInv'
    BY <2>1, <2>3 DEF UpbitAnswers, Land, Online, Told, PriceInv, PriceTypeOK, PriceIsRecent,
         PriceStaleness, Flying, Priced, NoFlight
  <2>4. ASSUME UpbitFails
        PROVE  PriceInv'
    BY <2>1, <2>4 DEF UpbitFails, Land, Unavailable, Told, PriceInv, PriceTypeOK, PriceIsRecent,
         Flying, Priced, NoFlight, NoPrice
  <2>5. ASSUME PriceTick
        PROVE  PriceInv'
    BY <2>1, <2>5 DEF PriceTick, PriceInv, PriceTypeOK, PriceIsRecent, Flying, Priced, NoFlight
  <2>6. ASSUME UNCHANGED priceVars
        PROVE  PriceInv'
    BY <2>6 DEF priceVars, PriceInv, PriceTypeOK, PriceIsRecent, Flying, Priced
  <2> QED BY <2>2, <2>3, <2>4, <2>5, <2>6 DEF PriceNext
<1> QED BY <1>1, <1>2, PTL DEF PriceSpec

(* Clock, cache, lookup and callers have their types.                      *)
THEOREM PriceTypeCorrect == PriceSpec => []PriceTypeOK
<1>1. PriceInv => PriceTypeOK
  BY DEF PriceInv
<1> QED BY <1>1, PriceInvariant, PTL

(* A price told as online was read within the longer of the cache's life   *)
(* and the time-out, and nobody waits without a lookup under way           *)
(* (lookupBtcKrwPrice).                                                    *)
THEOREM PriceToldIsRecent == PriceSpec => []PriceIsRecent
<1>1. PriceInv => PriceIsRecent
  BY DEF PriceInv
<1> QED BY <1>1, PriceInvariant, PTL

-----------------------------------------------------------------------------
(* The fee estimates.  Those of a preset fall because the lookup looked;   *)
(* those projected from blocks fall by their arithmetic, whatever the      *)
(* blocks are.                                                             *)

Block == [vsize: Nat, median: Nat, lowest: Nat]

(* The median of a block is no less than the minimum.                      *)
LEMMA MedianAboveMinimum ==
  ASSUME NEW blocks \in Seq(Block), NEW i \in Nat \ {0}, NEW previous \in Nat, NEW minimum \in Nat
  PROVE  /\ MedianAt(blocks, i, previous, minimum) \in Nat
         /\ MedianAt(blocks, i, previous, minimum) >= minimum
<1>1. CASE i > Len(blocks)
  BY <1>1 DEF MedianAt
<1>2. CASE ~(i > Len(blocks))
  <2> DEFINE block == blocks[i]
             doubled == IF previous = 0 THEN 2 * block.median ELSE block.median + previous
             part == (block.vsize - 500000) \div 1000
  <2>1. block \in Block
    BY <1>2
  <2>2. block.vsize \in Nat /\ block.median \in Nat
    BY <2>1 DEF Block
  <2> HIDE DEF block
  <2>3. doubled \in Nat
    BY <2>2
  <2>4. MedianFee(block, i = Len(blocks), previous, minimum)
          \in {minimum, Higher(Rounded(doubled * part, 1000), minimum), Higher(RoundedUp(doubled, 2), minimum)}
    BY DEF MedianFee
  <2>5. ~(block.vsize <= 500000) => part \in Nat
    BY <2>2
  <2> HIDE DEF doubled, part
  <2>6. ASSUME part \in Nat
        PROVE  doubled * part \in Nat
    BY <2>3, <2>6
  <2>7. ASSUME NEW n \in Nat
        PROVE  Rounded(n, 1000) \in Nat /\ RoundedUp(n, 2) \in Nat
    BY DEF Rounded, RoundedUp
  <2>8. CASE block.vsize <= 500000
    <3>1. MedianFee(block, i = Len(blocks), previous, minimum) = minimum
      BY <2>8 DEF MedianFee
    <3> QED BY <1>2, <3>1 DEF MedianAt, block
  <2>9. CASE ~(block.vsize <= 500000)
    <3>1. Rounded(doubled * part, 1000) \in Nat /\ RoundedUp(doubled, 2) \in Nat
      BY <2>3, <2>5, <2>6, <2>7, <2>9
    <3>2. \A n \in Nat : Higher(n, minimum) \in Nat /\ Higher(n, minimum) >= minimum
      BY DEF Higher
    <3>3. MedianAt(blocks, i, previous, minimum) = MedianFee(block, i = Len(blocks), previous, minimum)
      BY <1>2 DEF MedianAt, block
    <3> DEFINE fee == MedianFee(block, i = Len(blocks), previous, minimum)
               some == Rounded(doubled * part, 1000)
               full == RoundedUp(doubled, 2)
    <3>4. fee \in {minimum, Higher(some, minimum), Higher(full, minimum)} /\ some \in Nat /\ full \in Nat
      BY <2>4, <3>1
    <3> HIDE DEF fee, some, full
    <3>5. fee \in Nat /\ fee >= minimum
      BY <3>2, <3>4
    <3>6. MedianAt(blocks, i, previous, minimum) = fee
      BY <3>3 DEF fee
    <3> QED BY <3>5, <3>6
  <2> QED BY <2>8, <2>9
<1> QED BY <1>1, <1>2

\* Five positive fees, none below a later one.
Falls(p) ==
  /\ p \in [1..5 -> Nat]
  /\ p[1] >= p[2] /\ p[2] >= p[3] /\ p[3] >= p[4] /\ p[4] >= p[5] /\ p[5] > 0

(* Fees projected from any blocks fall, down to the minimum.               *)
LEMMA RecommendedFall ==
  ASSUME NEW blocks \in Seq(Block), NEW minimum \in Nat \ {0}
  PROVE  Falls(Buckets(Recommended(blocks, minimum)))
<1> DEFINE first  == MedianAt(blocks, 1, 0, minimum)
           second == MedianAt(blocks, 2, first, minimum)
           third  == MedianAt(blocks, 3, second, minimum)
           economy == Higher(minimum, Lower(2 * minimum, third))
           p == Recommended(blocks, minimum)
<1>0. {1, 2, 3} \subseteq Nat \ {0} /\ 0 \in Nat /\ minimum \in Nat
  OBVIOUS
<1>1. first \in Nat /\ first >= minimum
  BY <1>0, MedianAboveMinimum
<1>2. second \in Nat /\ second >= minimum
  BY <1>0, <1>1, MedianAboveMinimum
<1>3. third \in Nat /\ third >= minimum
  BY <1>0, <1>2, MedianAboveMinimum
<1>4. p = Append(Falling(first, second, third, economy), minimum)
  BY DEF Recommended
<1> HIDE DEF first, second, third, p
<1>5. economy \in Nat /\ economy >= minimum
  BY <1>3 DEF Higher, Lower
<1> HIDE DEF economy
<1>6. \A a, b, c, d : LET t == Append(<<a, b, c, d>>, minimum) IN
        t[1] = a /\ t[2] = b /\ t[3] = c /\ t[4] = d /\ t[5] = minimum
  OBVIOUS
<1>7. /\ p[1] = Higher(first, Higher(second, Higher(third, economy)))
      /\ p[2] = Higher(second, Higher(third, economy))
      /\ p[3] = Higher(third, economy) /\ p[4] = economy /\ p[5] = minimum
  BY <1>4, <1>6 DEF Falling
<1>8. \A m, n \in Nat : Higher(m, n) \in Nat /\ Higher(m, n) >= n
  BY DEF Higher
<1>9. /\ p[1] \in Nat /\ p[2] \in Nat /\ p[3] \in Nat /\ p[4] \in Nat /\ p[5] = minimum
      /\ p[1] >= p[2] /\ p[2] >= p[3] /\ p[3] >= p[4] /\ p[4] >= p[5]
  BY <1>0, <1>1, <1>2, <1>3, <1>5, <1>7, <1>8
<1> DEFINE q == Buckets(p)
<1>10. q = <<Higher(p[1] + 500, 1000), Higher(p[2] + 250, 500), p[3], p[4], p[5]>>
  BY DEF Buckets
<1> HIDE DEF q
<1>11. /\ q[1] = Higher(p[1] + 500, 1000) /\ q[2] = Higher(p[2] + 250, 500)
       /\ q[3] = p[3] /\ q[4] = p[4] /\ q[5] = p[5]
  BY <1>10
<1>12. q[1] \in Nat /\ q[2] \in Nat /\ q[1] >= q[2] /\ q[2] >= p[2]
  <2>1. ASSUME NEW m \in Nat, NEW n \in Nat, m >= n
        PROVE  /\ Higher(m + 500, 1000) \in Nat /\ Higher(n + 250, 500) \in Nat
               /\ Higher(m + 500, 1000) >= Higher(n + 250, 500) /\ Higher(n + 250, 500) >= n
    BY <2>1 DEF Higher
  <2> QED BY <1>9, <1>11, <2>1
<1>13. q[2] >= q[3] /\ q[3] >= q[4] /\ q[4] >= q[5] /\ q[5] > 0
  BY <1>9, <1>11, <1>12
<1>14. q \in [1..5 -> Nat]
  <2>1. DOMAIN q = 1..5 /\ q = [i \in 1..5 |-> q[i]]
    BY <1>10
  <2>2. ASSUME NEW i \in 1..5
        PROVE  q[i] \in Nat
    <3>1. i = 1 \/ i = 2 \/ i = 3 \/ i = 4 \/ i = 5
      OBVIOUS
    <3>2. q[3] \in Nat /\ q[4] \in Nat /\ q[5] \in Nat
      BY <1>9, <1>11
    <3> QED BY <1>12, <3>1, <3>2
  <2> QED BY <2>1, <2>2
<1> QED BY <1>12, <1>13, <1>14 DEF Falls, p, q

(* What the lookup makes of blocks is nothing or falls.                    *)
LEMMA ProjectedFall ==
  ASSUME NEW blocks \in Seq(Block), NEW info \in Nat
  PROVE  Projected(blocks, info) = NoPreset \/ Falls(Projected(blocks, info))
<1>1. CASE info > 0
  BY <1>1, RecommendedFall DEF Projected
<1>2. CASE ~(info > 0) /\ LowestFees(blocks) = {}
  BY <1>2 DEF Projected
<1>3. CASE ~(info > 0) /\ LowestFees(blocks) # {}
  <2>1. LowestFees(blocks) \subseteq Nat \ {0}
    <3>1. ASSUME NEW i \in DOMAIN blocks
          PROVE  blocks[i].lowest \in Nat
      <4>1. blocks[i] \in Block
        OBVIOUS
      <4> QED BY <4>1 DEF Block
    <3> QED BY <3>1 DEF LowestFees
  <2>2. \E m \in LowestFees(blocks) : \A n \in LowestFees(blocks) : m <= n
    BY <1>3, <2>1, LeastNatural
  <2> QED BY <1>3, <2>1, <2>2, RecommendedFall DEF Projected
<1> QED BY <1>1, <1>2, <1>3

\* The estimates are none, or of a source and in order.
FeesInv ==
  /\ FeesTypeOK
  /\ fees.blocks \in Seq(Block)
  /\ \/ fees.source = "none" /\ fees.estimates = NoPreset
     \/ /\ fees.source \in ToSet(Candidates)
        /\ fees.estimates \in Presets /\ Usable(fees.estimates)
     \/ fees.source = "projected-blocks" /\ Falls(fees.estimates)

(* A lookup that begins anew has nothing.                                  *)
LEMMA FeesAnew ==
  ASSUME NEW stage \in {"idle", "candidates", "blocks", "done"}, NEW path \in 1..6, fees' = At(stage, path)
  PROVE  FeesInv'
BY DEF FeesInv, FeesTypeOK, At, NoPreset, NoBlocks

LEMMA FeesInvariant == FeesSpec => []FeesInv
<1>1. FeesInit => FeesInv
  BY DEF FeesInit, FeesInv, FeesTypeOK, At, NoPreset, NoBlocks
<1>2. FeesInv /\ [FeesNext]_feeVars => FeesInv'
  <2> SUFFICES ASSUME FeesInv, [FeesNext]_feeVars PROVE FeesInv'
    OBVIOUS
  <2>1. ToSet(Candidates) = {"precise", "recommended", "init-data"} /\ \A i \in 1..6 : Candidates[i] \in ToSet(Candidates)
    BY DEF ToSet, Candidates
  <2>2. ASSUME StartFees \/ CandidateFails \/ BlocksFail
        PROVE  FeesInv'
    <3>1. \E stage \in {"idle", "candidates", "blocks", "done"}, path \in 1..6 : fees' = At(stage, path)
      BY <2>2 DEF FeesInv, FeesTypeOK, StartFees, CandidateFails, BlocksFail, NextBlocks
    <3> QED BY <3>1, FeesAnew
  <2>3. ASSUME CandidateAnswers
        PROVE  FeesInv'
    <3>1. PICK p \in Presets : /\ Usable(p)
                               /\ fees' = [At("done", fees.path) EXCEPT !.estimates = p, !.source = Candidates[fees.path]]
      BY <2>3 DEF CandidateAnswers
    <3>2. /\ fees'.stage = "done" /\ fees'.path = fees.path /\ fees'.blocks = NoBlocks
          /\ fees'.estimates = p /\ fees'.source = Candidates[fees.path]
      BY <3>1 DEF At
    <3>3. p \in [1..5 -> Nat] /\ fees.path \in 1..6
      BY FeesAssumption DEF FeesInv, FeesTypeOK
    <3>4. fees'.source \in ToSet(Candidates) /\ fees'.blocks \in Seq(Block)
      BY <2>1, <3>2, <3>3 DEF NoBlocks
    <3>5. FeesTypeOK'
      BY <3>2, <3>3, <3>4 DEF FeesTypeOK
    <3> QED BY <3>1, <3>2, <3>4, <3>5 DEF FeesInv
  <2>4. ASSUME BlocksAnswer
        PROVE  FeesInv'
    <3>1. PICK blocks \in BlockLists : fees' = [fees EXCEPT !.stage = "info", !.blocks = blocks]
      BY <2>4 DEF BlocksAnswer
    <3>2. blocks \in Seq(Block)
      BY FeesAssumption DEF Block
    <3> QED BY <3>1, <3>2 DEF FeesInv, FeesTypeOK
  <2>5. ASSUME InfoAnswers
        PROVE  FeesInv'
    <3>1. PICK info \in MinimumFees \cup {0} :
            LET estimates == Projected(fees.blocks, info)
            IN  fees' = IF estimates = NoPreset THEN NextBlocks
                        ELSE [At("done", fees.path) EXCEPT !.estimates = estimates, !.source = "projected-blocks"]
      BY <2>5 DEF InfoAnswers
    <3> DEFINE p == Projected(fees.blocks, info)
    <3>2. info \in Nat /\ fees.blocks \in Seq(Block) /\ fees.path \in 1..6
      BY FeesAssumption DEF FeesInv, FeesTypeOK
    <3>3. p = NoPreset \/ Falls(p)
      BY <3>2, ProjectedFall
    <3>4. fees' = IF p = NoPreset THEN NextBlocks
                  ELSE [At("done", fees.path) EXCEPT !.estimates = p, !.source = "projected-blocks"]
      BY <3>1
    <3> HIDE DEF p
    <3>5. CASE p = NoPreset
      BY <3>4, <3>5, FeesAnew DEF NextBlocks
    <3>6. CASE p # NoPreset
      BY <3>2, <3>3, <3>4, <3>6 DEF FeesInv, FeesTypeOK, At, NoBlocks, Falls
    <3> QED BY <3>5, <3>6
  <2>6. ASSUME UNCHANGED feeVars
        PROVE  FeesInv'
    BY <2>6 DEF feeVars, FeesInv, FeesTypeOK
  <2> QED BY <2>2, <2>3, <2>4, <2>5, <2>6 DEF FeesNext
<1> QED BY <1>1, <1>2, PTL DEF FeesSpec

(* The lookup of the fees keeps its types.                                 *)
THEOREM FeesTypeCorrect == FeesSpec => []FeesTypeOK
<1>1. FeesInv => FeesTypeOK
  BY DEF FeesInv
<1> QED BY <1>1, FeesInvariant, PTL

(* Wherever the estimates come from, a faster button does not offer a      *)
(* lower rate than a slower one, whatever presets and blocks are answered  *)
(* (lookupFeeEstimateResult, calculateMempoolUiFeeBuckets).                *)
THEOREM FeesAlwaysFall == FeesSpec => []FeesFall
<1>1. FeesInv => FeesFall
  <2> SUFFICES ASSUME FeesInv PROVE FeesFall
    OBVIOUS
  <2> DEFINE p == fees.estimates
  <2>1. CASE fees.source = "none" /\ p = NoPreset
    BY <2>1 DEF FeesFall, PresetRate, Or, NoPreset
  <2>2. CASE fees.source \in ToSet(Candidates) /\ p \in Presets /\ Usable(p)
    <3>1. p \in [1..5 -> Nat] /\ fees.source \notin {"none", "projected-blocks"}
      BY <2>2, FeesAssumption DEF ToSet, Candidates
    <3>2. /\ p[1] \in Nat /\ p[2] \in Nat /\ p[3] \in Nat /\ p[4] \in Nat /\ p[5] \in Nat
          /\ p # NoPreset
          /\ \A i, j \in 1..5 : i < j /\ p[i] > 0 /\ p[j] > 0 => p[i] >= p[j]
      BY <2>2, <3>1 DEF Usable, Consistent, HasAnyFee
    <3> HIDE DEF p
    <3> QED BY <3>1, <3>2 DEF FeesFall, PresetRate, Or, p
  <2>3. CASE fees.source = "projected-blocks" /\ Falls(p)
    <3>1. /\ p[1] \in Nat /\ p[2] \in Nat /\ p[3] \in Nat /\ p[4] \in Nat /\ p[5] \in Nat
          /\ p[1] >= p[2] /\ p[2] >= p[3] /\ p[3] >= p[4] /\ p[4] >= p[5] /\ p[5] > 0
      BY <2>3 DEF Falls
    <3>2. p # NoPreset
      BY <3>1 DEF NoPreset
    <3>3. \A i \in 1..5 : p[i] >= p[5] /\ p[i] > 0
      BY <3>1
    <3> HIDE DEF p
    <3> QED BY <2>3, <3>1, <3>2, <3>3 DEF FeesFall, PresetRate, Or, p
  <2> QED BY <2>1, <2>2, <2>3 DEF FeesInv
<1> QED BY <1>1, FeesInvariant, PTL

-----------------------------------------------------------------------------
(* The usage of addresses.  The argument: what a lookup says was so when   *)
(* its attempt began or later, and what the cache says was so no longer    *)
(* ago than its entry is old and the attempt took; so neither calls an     *)
(* address unused that was used long before the scan.  A discovery looks   *)
(* at one address after the other, so that all it has seen lie below the   *)
(* one it stopped at.                                                      *)

\* An address that is used has been since some moment in the past.
UsedInPast == \A a \in Branch : usedAt[a] = Never \/ usedAt[a] <= time

\* What an entry of the cache says of its address.
EntryIsTrue(a) ==
  LET entry == usageCache[a]
  IN  /\ entry.expiresAt <= time + CacheTtl
      /\ entry.value = "unused" => usedAt[a] >= entry.expiresAt - Staleness
      /\ entry.value = "used" => usedAt[a] <= time

\* What was long used when a scan began still is, and was when any of its
\* lookups began; and no attempt is older than the time-out.
Timely(s) ==
  /\ \A a \in s.long : usedAt[a] < time - Staleness
  /\ \A w \in Workers : LET lookup == s.lookups[w] IN
       lookup.of \in Branch =>
         /\ lookup.since <= time /\ time <= lookup.since + Timeout
         /\ lookup.of \in s.long => usedAt[lookup.of] < lookup.since

NoneAsked(s) == \A w \in Workers : s.lookups[w] = NoLookup

\* A discovery has seen all addresses below its cursor, but for the one it waits for.
Discovering(s) ==
  /\ Known(s) \subseteq s.seen
  /\ \/ NoneAsked(s) /\ s.seen = 0..(s.cursor - 1)
     \/ \E w \in Workers :
          /\ s.lookups[w].of \in Branch /\ s.lookups[w].of = s.cursor - 1
          /\ \A v \in Workers \ {w} : s.lookups[v] = NoLookup
          /\ s.seen = 0..(s.cursor - 2)

\* The other scans have seen and asked for addresses below the cursor.
Spread(s) ==
  /\ s.cursor <= s.last
  /\ s.seen \subseteq 0..(s.cursor - 1)
  /\ \A w \in Workers : s.lookups[w].of < s.cursor

\* What a discovery found, it has seen without a break.
FoundAll(s) ==
  /\ \E n \in Branch : s.seen = 0..n
  /\ Known(s) \subseteq s.seen
  /\ s.gap => GapReached(s)

Shaped(s) ==
  /\ s \in Scan
  /\ s.unused \cap s.long = {} /\ s.unused \cap s.used = {}
  /\ s.does \in {"next", "prefix"} => Discovering(s)
  /\ s.does \in {"balance", "change"} => Spread(s)
  /\ s.does = "found" => FoundAll(s)
  /\ s.does = "counted" => s.seen = 0..(s.last - 1)

UsageInv ==
  /\ UsageTypeOK
  /\ UsedInPast
  /\ \A a \in Branch : EntryIsTrue(a)
  /\ \A i \in Scans : Shaped(scans[i]) /\ Timely(scans[i])

-----------------------------------------------------------------------------
\* The limits are numbers, and the addresses those below the discovery's.
LEMMA UsageNumbers ==
  /\ MaxDiscovery \in Nat \ {0} /\ AddressLimit \in Nat /\ AddressLimit <= MaxDiscovery
  /\ GapLimit \in Nat \ {0} /\ CacheTtl \in Nat \ {0} /\ Timeout \in Nat \ {0}
  /\ EndOfTime \in Nat /\ Never = EndOfTime + 1
  /\ Staleness = CacheTtl + Timeout /\ Staleness \in Nat
  /\ Branch = 0..(MaxDiscovery - 1) /\ -1 \notin Branch
BY UsageAssumption DEF Never, Staleness, Branch

Lookup == [of: Branch \cup {-1}, since: 0..EndOfTime, tries: 0..1]

\* A scan that has not begun, and a lookup that nobody asked for.
LEMMA NoneIsScan ==
  /\ NoLookup \in Lookup /\ NoLookup.of = -1
  /\ NoScan \in Scan
<1>1. NoLookup \in Lookup /\ NoLookup.of = -1
  BY UsageNumbers DEF NoLookup, Lookup
<1>2. [w \in Workers |-> NoLookup] \in [Workers -> Lookup]
  BY <1>1
<1> QED BY <1>1, <1>2, UsageNumbers DEF NoScan, Scan, Lookup

\* A scan that has its answer for an address is still of its kind, or has all
\* it asked for.
LEMMA RecordedIs ==
  ASSUME NEW s \in Scan, NEW a \in Branch, NEW usage \in Usage,
         NEW t, t = Noted(s, a, usage), NEW r, r = Recorded(s, a, usage)
  PROVE  /\ r \in Scan
         /\ r.long = t.long /\ r.used = t.used /\ r.unused = t.unused /\ r.lookups = t.lookups
         /\ \/ r = t /\ (s.does \in {"next", "prefix"} => a # MaxDiscovery - 1)
            \/ s.does = "next" /\ r.does = "found" /\ r.seen = t.seen /\ r.gap = GapReached(t)
            \/ s.does = "prefix" /\ r.does = "balance" /\ r.last = a + 1 /\ r.cursor = 0 /\ r.seen = {}
            \/ s.does = "balance" /\ r.does = "counted" /\ r.seen = t.seen /\ r.last = t.last /\ AllAnswered(t)
            \/ s.does = "change" /\ r.does = "chosen"
<1> DEFINE ended == [t EXCEPT !.gap = GapReached(t)]
           ends == StopsAt(t) \/ a = MaxDiscovery - 1
<1>1. t \in Scan /\ t.does = s.does
  BY DEF Noted, Scan
<1>2. GapReached(t) \in BOOLEAN
  BY DEF GapReached
<1>3. /\ ended \in Scan /\ ended.long = t.long /\ ended.used = t.used /\ ended.unused = t.unused
      /\ ended.lookups = t.lookups /\ ended.seen = t.seen /\ ended.gap = GapReached(t)
  BY <1>1, <1>2 DEF Scan
<1>4. r = CASE s.does = "next" /\ ends -> [ended EXCEPT !.does = "found"]
            [] s.does = "prefix" /\ ends -> Window(ended, a + 1)
            [] s.does = "balance" /\ AllAnswered(t) -> [t EXCEPT !.does = "counted"]
            [] s.does = "change" /\ AllAnswered(t) -> [t EXCEPT !.does = "chosen"]
            [] OTHER -> t
  BY DEF Recorded
<1> HIDE DEF ended
<1>5. CASE s.does = "next" /\ ends
  <2>1. r = [ended EXCEPT !.does = "found"]
    BY <1>4, <1>5
  <2> QED BY <1>3, <1>5, <2>1 DEF Scan
<1>6. CASE s.does = "prefix" /\ ends
  <2>1. r = [ended EXCEPT !.does = "balance", !.last = a + 1, !.cursor = 0, !.seen = {}]
    BY <1>4, <1>6 DEF Window
  <2>2. a + 1 \in 0..MaxDiscovery /\ 0 \in 0..MaxDiscovery
    BY UsageNumbers
  <2> QED BY <1>3, <1>6, <2>1, <2>2 DEF Scan
<1>7. CASE s.does = "balance" /\ AllAnswered(t)
  <2>1. r = [t EXCEPT !.does = "counted"]
    BY <1>4, <1>7
  <2> QED BY <1>1, <1>7, <2>1 DEF Scan
<1>8. CASE s.does = "change" /\ AllAnswered(t)
  <2>1. r = [t EXCEPT !.does = "chosen"]
    BY <1>4, <1>8
  <2> QED BY <1>1, <1>8, <2>1 DEF Scan
<1>9. CASE ~(s.does \in {"next", "prefix"} /\ ends) /\ ~(s.does \in {"balance", "change"} /\ AllAnswered(t))
  <2>1. r = t
    BY <1>4, <1>9
  <2> QED BY <1>1, <1>9, <2>1
<1> QED BY <1>5, <1>6, <1>7, <1>8, <1>9

\* The gap depends on what was seen and what of it is unused.
LEMMA SameGap ==
  ASSUME NEW s, NEW t, s.seen = t.seen, s.unused = t.unused
  PROVE  GapReached(s) <=> GapReached(t)
BY DEF GapReached, RunOfUnused, RunOf

\* Before the answer for address a is noted: a discovery waits for no other, and
\* the other scans have asked for it.
Answering(s, a) ==
  /\ s \in Scan
  /\ s.unused \cap s.long = {} /\ s.unused \cap s.used = {}
  /\ s.does \notin Results
  /\ s.does \in {"next", "prefix"} =>
       /\ NoneAsked(s)
       /\ Known(s) \subseteq s.seen
       /\ s.seen = 0..(a - 1) /\ s.cursor = a + 1
  /\ s.does \in {"balance", "change"} => Spread(s) /\ a < s.cursor

\* Then the scan has its shape after it, unless it calls unused what was long used.
LEMMA RecordedShaped ==
  ASSUME NEW s \in Scan, NEW a \in Branch, NEW usage \in Usage,
         Answering(s, a), usage = "unused" => a \notin s.long,
         NEW r, r = Recorded(s, a, usage)
  PROVE  Shaped(r) /\ r.long = s.long /\ r.lookups = s.lookups
<1> DEFINE t == Noted(s, a, usage)
<1>1. /\ t \in Scan
      /\ t.does = s.does /\ t.long = s.long /\ t.cursor = s.cursor /\ t.last = s.last
      /\ t.gap = s.gap /\ t.lookups = s.lookups
      /\ t.seen = s.seen \cup {a}
      /\ t.used = IF usage = "used" THEN s.used \cup {a} ELSE s.used \ {a}
      /\ t.unused = IF usage = "unused" THEN s.unused \cup {a} ELSE s.unused \ {a}
  BY DEF Noted, Scan
<1>2. /\ r \in Scan
      /\ r.long = t.long /\ r.used = t.used /\ r.unused = t.unused /\ r.lookups = t.lookups
      /\ \/ r = t /\ (s.does \in {"next", "prefix"} => a # MaxDiscovery - 1)
         \/ s.does = "next" /\ r.does = "found" /\ r.seen = t.seen /\ r.gap = GapReached(t)
         \/ s.does = "prefix" /\ r.does = "balance" /\ r.last = a + 1 /\ r.cursor = 0 /\ r.seen = {}
         \/ s.does = "balance" /\ r.does = "counted" /\ r.seen = t.seen /\ r.last = t.last /\ AllAnswered(t)
         \/ s.does = "change" /\ r.does = "chosen"
  BY RecordedIs
<1> HIDE DEF t
<1>3. r.unused \cap r.long = {} /\ r.unused \cap r.used = {}
  BY <1>1, <1>2 DEF Answering
<1>4. a \in Nat /\ a + 1 \in Nat /\ a \in Branch
  BY UsageNumbers
<1>5. Known(s) \subseteq s.seen => Known(t) \subseteq t.seen
  BY <1>1 DEF Known
<1>6. CASE r = t
  <2>1. s.does \in {"next", "prefix"} => Discovering(t)
    <3> SUFFICES ASSUME s.does \in {"next", "prefix"} PROVE Discovering(t)
      OBVIOUS
    <3>1. NoneAsked(s) /\ Known(s) \subseteq s.seen /\ s.seen = 0..(a - 1) /\ s.cursor = a + 1
      BY DEF Answering
    <3>2. t.seen = 0..(t.cursor - 1)
      BY <1>1, <1>4, <3>1
    <3>3. NoneAsked(t)
      BY <1>1, <3>1 DEF NoneAsked
    <3> QED BY <1>5, <3>1, <3>2, <3>3 DEF Discovering
  <2>2. s.does \in {"balance", "change"} => Spread(t)
    <3> SUFFICES ASSUME s.does \in {"balance", "change"} PROVE Spread(t)
      OBVIOUS
    <3>1. Spread(s) /\ a < s.cursor
      BY DEF Answering
    <3>2. s.cursor \in Nat /\ s.last \in Nat
      BY UsageNumbers DEF Scan
    <3> QED BY <1>1, <1>4, <3>1, <3>2 DEF Spread
  <2> QED BY <1>1, <1>3, <1>6, <2>1, <2>2, <1>2 DEF Shaped, Answering, Results
<1>7. CASE s.does = "next" /\ r.does = "found" /\ r.seen = t.seen /\ r.gap = GapReached(t)
  <2>1. NoneAsked(s) /\ Known(s) \subseteq s.seen /\ s.seen = 0..(a - 1)
    BY <1>7 DEF Answering
  <2>2. r.seen = 0..a
    BY <1>1, <1>4, <1>7, <2>1
  <2>3. Known(r) \subseteq r.seen
    BY <1>2, <1>5, <1>7, <2>1 DEF Known
  <2>4. r.gap => GapReached(r)
    BY <1>2, <1>7, SameGap
  <2>5. FoundAll(r)
    BY <2>2, <2>3, <2>4 DEF FoundAll
  <2> QED BY <1>1, <1>2, <1>3, <1>7, <2>5 DEF Shaped
<1>8. CASE s.does = "prefix" /\ r.does = "balance" /\ r.last = a + 1 /\ r.cursor = 0 /\ r.seen = {}
  <2>1. \A w \in Workers : r.lookups[w].of = -1
    BY <1>1, <1>2, <1>8, NoneIsScan DEF Answering, NoneAsked
  <2>2. Spread(r)
    BY <1>4, <1>8, <2>1 DEF Spread
  <2> QED BY <1>1, <1>2, <1>3, <1>8, <2>2 DEF Shaped
<1>9. CASE s.does = "balance" /\ r.does = "counted" /\ r.seen = t.seen /\ r.last = t.last /\ AllAnswered(t)
  <2>1. s.cursor \in Nat /\ s.last \in Nat
    BY UsageNumbers DEF Scan
  <2>2. t.seen \subseteq 0..(t.last - 1)
    BY <1>1, <1>4, <1>9, <2>1 DEF Answering, Spread
  <2>3. IsFiniteSet(0..(t.last - 1)) /\ Cardinality(0..(t.last - 1)) = t.last
    <3>1. PICK n \in Int : n = t.last - 1
      BY <1>1, <2>1
    <3>2. IsFiniteSet(0..n) /\ Cardinality(0..n) = IF 0 > n THEN 0 ELSE n - 0 + 1
      BY 0 \in Int, FS_Interval, Zenon
    <3> QED BY <1>1, <2>1, <3>1, <3>2
  <2>4. Cardinality(t.seen) = t.last
    BY <1>9 DEF AllAnswered
  <2>5. t.seen = 0..(t.last - 1)
    BY <2>2, <2>3, <2>4, FS_Subset
  <2> QED BY <1>1, <1>2, <1>3, <1>9, <2>5 DEF Shaped
<1>10. CASE s.does = "change" /\ r.does = "chosen"
  BY <1>1, <1>2, <1>3, <1>10 DEF Shaped
<1> QED BY <1>1, <1>2, <1>6, <1>7, <1>8, <1>9, <1>10

-----------------------------------------------------------------------------
(* What a step does to one scan leaves the others as they are.             *)
LEMMA ScanChanges ==
  ASSUME UsageInv, NEW s \in Scans, NEW r, Shaped(r), Timely(r),
         scans' = [scans EXCEPT ![s] = r], UNCHANGED <<time, usedAt>>
  PROVE  /\ scans' \in [Scans -> Scan]
         /\ \A i \in Scans : Shaped(scans'[i]) /\ Timely(scans[i])'
         /\ UsedInPast'
<1>1. scans \in [Scans -> Scan] /\ r \in Scan
  BY DEF UsageInv, UsageTypeOK, Shaped
<1>2. scans'[s] = r /\ \A i \in Scans \ {s} : scans'[i] = scans[i]
  BY <1>1
<1>3. \A q : Timely(q) => Timely(q)'
  BY DEF Timely
<1>4. ASSUME NEW i \in Scans
      PROVE  Shaped(scans'[i]) /\ Timely(scans[i])'
  <2>1. PICK q : q = scans'[i]
    OBVIOUS
  <2>2. Shaped(q) /\ Timely(q)
    BY <1>2, <2>1 DEF UsageInv
  <2> QED BY <1>3, <2>1, <2>2 DEF Timely
<1>5. UsedInPast'
  BY DEF UsageInv, UsedInPast
<1> QED BY <1>1, <1>4, <1>5

\* A scan that is delivered, or begins, has its shape.
LEMMA DeliverKeeps == ASSUME UsageInv, NEW s \in Scans, Deliver(s) PROVE UsageInv'
<1> DEFINE r == [NoScan EXCEPT !.does = "delivered"]
<1>1. /\ r \in Scan /\ r.does = "delivered" /\ r.long = {} /\ r.used = {} /\ r.unused = {}
      /\ r.lookups = [w \in Workers |-> NoLookup]
  BY NoneIsScan DEF NoScan, Scan
<1>2. scans' = [scans EXCEPT ![s] = r]
  BY DEF Deliver
<1> HIDE DEF r
<1>3. Shaped(r) /\ Timely(r)
  BY <1>1, NoneIsScan, UsageNumbers DEF Shaped, Timely
<1>4. UNCHANGED <<time, usedAt, faults, usageCache>>
  BY DEF Deliver
<1> QED BY <1>2, <1>3, <1>4, ScanChanges DEF UsageInv, UsageTypeOK, EntryIsTrue

LEMMA StartKeeps == ASSUME UsageInv, NEW s \in Scans, StartScan(s) PROVE UsageInv'
<1>1. PICK kind \in Kinds[s] :
        scans' = [scans EXCEPT ![s] = [NoScan EXCEPT !.does = kind, !.long = LongUsed, !.last = Limit(kind)]]
  BY DEF StartScan
<1> DEFINE r == [NoScan EXCEPT !.does = kind, !.long = LongUsed, !.last = Limit(kind)]
<1>2. kind \in {"next", "prefix", "change"}
  BY UsageAssumption
<1>3. LongUsed \subseteq Branch /\ \A a \in LongUsed : usedAt[a] < time - Staleness
  BY DEF LongUsed
<1>4. Limit(kind) \in 0..MaxDiscovery
  BY UsageNumbers DEF Limit
<1>5. /\ r \in Scan /\ r.does = kind /\ r.long = LongUsed /\ r.last = Limit(kind) /\ r.cursor = 0
      /\ r.seen = {} /\ r.used = {} /\ r.unused = {} /\ r.lookups = [w \in Workers |-> NoLookup]
  BY <1>2, <1>3, <1>4, NoneIsScan DEF NoScan, Scan
<1> HIDE DEF r
<1>6. NoneAsked(r) /\ \A w \in Workers : r.lookups[w].of = -1
  BY <1>5, NoneIsScan DEF NoneAsked
<1>7. Shaped(r)
  <2>1. Discovering(r)
    BY <1>5, <1>6 DEF Discovering, Known
  <2>2. Spread(r)
    BY <1>4, <1>5, <1>6 DEF Spread
  <2> QED BY <1>2, <1>5, <2>1, <2>2 DEF Shaped
<1>8. Timely(r)
  BY <1>3, <1>5, <1>6, UsageNumbers DEF Timely
<1>9. UNCHANGED <<time, usedAt, faults, usageCache>> /\ scans' = [scans EXCEPT ![s] = r]
  BY <1>1 DEF StartScan, r
<1> QED BY <1>7, <1>8, <1>9, ScanChanges DEF UsageInv, UsageTypeOK, EntryIsTrue

\* A worker that is free finds all below the cursor seen, or asked for by others.
LEMMA FreeWorker ==
  ASSUME UsageInv, NEW s \in Scans, NEW w \in Workers, Free(s, w),
         NEW a, a = scans[s].cursor, NEW q, q = [scans[s] EXCEPT !.cursor = a + 1]
  PROVE  /\ a \in Branch /\ a + 1 \in 0..MaxDiscovery
         /\ q \in Scan /\ Answering(q, a)
<1> DEFINE t == scans[s]
<1>1. t \in Scan /\ Shaped(t)
  BY DEF UsageInv, UsageTypeOK
<1>2. /\ t.lookups[w] = NoLookup /\ a < t.last
      /\ \/ t.does \in {"balance", "change"}
         \/ t.does \in {"next", "prefix"} /\ NoneAsked(t)
  BY DEF Free, NoneAsked
<1>3. q = [t EXCEPT !.cursor = a + 1] /\ a = t.cursor
  OBVIOUS
<1> HIDE DEF t
<1>4. a \in 0..MaxDiscovery /\ t.last \in 0..MaxDiscovery
  BY <1>1, <1>3 DEF Scan
<1>5. a \in Branch /\ a + 1 \in 0..MaxDiscovery
  <2>1. MaxDiscovery \in Nat /\ Branch = 0..(MaxDiscovery - 1)
    BY UsageNumbers
  <2>2. PICK last : last = t.last
    OBVIOUS
  <2>3. a < last /\ last \in 0..MaxDiscovery
    BY <1>2, <1>4, <2>2
  <2> QED BY <1>4, <2>1, <2>3
<1>6. /\ q \in Scan /\ q.does = t.does /\ q.long = t.long /\ q.last = t.last /\ q.cursor = a + 1
      /\ q.seen = t.seen /\ q.used = t.used /\ q.unused = t.unused /\ q.lookups = t.lookups
  BY <1>1, <1>3, <1>5 DEF Scan
<1>7. ASSUME t.does \in {"next", "prefix"}
      PROVE  NoneAsked(q) /\ Known(q) \subseteq q.seen /\ q.seen = 0..(a - 1)
  <2>1. NoneAsked(t) /\ Discovering(t)
    BY <1>1, <1>2, <1>7 DEF Shaped
  <2>2. \A v \in Workers : t.lookups[v].of \notin Branch
    BY <2>1, NoneIsScan, UsageNumbers DEF NoneAsked
  <2> QED BY <1>3, <1>6, <2>1, <2>2 DEF Discovering, NoneAsked, Known
<1>8. ASSUME t.does \in {"balance", "change"}
      PROVE  Spread(q)
  <2>1. Spread(t)
    BY <1>1, <1>8 DEF Shaped
  <2>2. ASSUME NEW v \in Workers
        PROVE  q.lookups[v].of < q.cursor
    <3>1. PICK of : of = t.lookups[v].of
      OBVIOUS
    <3>2. of \in Branch \cup {-1} /\ of < a
      BY <1>1, <1>3, <2>1, <3>1 DEF Scan, Spread
    <3>3. of \in Int
      BY <3>2, UsageNumbers
    <3> QED BY <1>4, <1>6, <3>1, <3>2, <3>3
  <2>3. q.seen \subseteq 0..(q.cursor - 1)
    BY <1>3, <1>4, <1>6, <2>1 DEF Spread
  <2>4. q.cursor <= q.last
    <3>1. PICK last : last = t.last
      OBVIOUS
    <3>2. last \in Nat /\ a < last
      BY <1>2, <1>4, <3>1, UsageNumbers
    <3> QED BY <1>4, <1>6, <3>1, <3>2
  <2> QED BY <2>2, <2>3, <2>4 DEF Spread
<1>9. a < q.cursor
  BY <1>4, <1>6
<1>10. q.unused \cap q.long = {} /\ q.unused \cap q.used = {} /\ q.does \notin Results
  BY <1>1, <1>2, <1>6 DEF Shaped, Results
<1>11. Answering(q, a)
  BY <1>2, <1>6, <1>7, <1>8, <1>9, <1>10 DEF Answering
<1> QED BY <1>5, <1>6, <1>11

\* Only what was long used and the lookups matter for Timely.
LEMMA TimelySame ==
  ASSUME NEW s, NEW t, s.long = t.long, s.lookups = t.lookups, Timely(s)
  PROVE  Timely(t)
BY DEF Timely

\* The times that the invariant compares.
LEMMA UsageTimes ==
  ASSUME UsageInv
  PROVE  /\ time \in 0..EndOfTime /\ time \in Int
         /\ \A a \in Branch : /\ usedAt[a] \in {Long} \cup 0..Never /\ usedAt[a] \in Int
                              /\ usageCache[a].expiresAt \in Int
<1>1. Long \in Int
  BY UsageNumbers DEF Long
<1>2. Never \in Int /\ EndOfTime \in Int /\ CacheTtl \in Int
  BY UsageNumbers
<1> QED BY <1>1, <1>2 DEF UsageInv, UsageTypeOK

LEMMA TakeCachedKeeps ==
  ASSUME UsageInv, NEW s \in Scans, NEW w \in Workers, TakeCached(s, w)
  PROVE  UsageInv'
<1>1. PICK a : a = scans[s].cursor
  OBVIOUS
<1>2. PICK q : q = [scans[s] EXCEPT !.cursor = a + 1]
  OBVIOUS
<1>3. PICK usage : usage = usageCache[a].value
  OBVIOUS
<1>4. PICK r : r = Recorded(q, a, usage)
  OBVIOUS
<1>5. /\ scans' = [scans EXCEPT ![s] = r]
      /\ Free(s, w) /\ Cached(a) /\ UNCHANGED <<time, usedAt, faults, usageCache>>
  BY <1>1, <1>2, <1>3, <1>4 DEF TakeCached
<1>6. a \in Branch /\ q \in Scan /\ Answering(q, a)
  BY <1>1, <1>2, <1>5, FreeWorker
<1>7. scans[s] \in Scan /\ Timely(scans[s])
  BY DEF UsageInv, UsageTypeOK
<1>8. q.long = scans[s].long /\ q.lookups = scans[s].lookups
  BY <1>2, <1>7 DEF Scan
<1>9. Timely(q)
  BY <1>7, <1>8, TimelySame
<1>10. usage = "unused" => a \notin q.long
  <2> SUFFICES ASSUME usage = "unused", a \in q.long PROVE FALSE
    OBVIOUS
  <2>1. usedAt[a] >= usageCache[a].expiresAt - Staleness /\ usageCache[a].expiresAt > time
    BY <1>3, <1>5, <1>6 DEF UsageInv, EntryIsTrue, Cached
  <2>2. usedAt[a] < time - Staleness
    BY <1>9 DEF Timely
  <2>3. /\ usedAt[a] \in Int /\ usageCache[a].expiresAt \in Int /\ time \in Int /\ Staleness \in Int
    BY <1>6, UsageTimes, UsageNumbers
  <2> QED BY <2>1, <2>2, <2>3
<1>11. usage \in Usage
  BY <1>3, <1>6 DEF UsageInv, UsageTypeOK
<1>12. Shaped(r) /\ r.long = q.long /\ r.lookups = q.lookups
  BY <1>4, <1>6, <1>10, <1>11, RecordedShaped
<1>13. Timely(r)
  BY <1>9, <1>12, TimelySame
<1> QED BY <1>5, <1>12, <1>13, ScanChanges DEF UsageInv, UsageTypeOK, EntryIsTrue

LEMMA AskKeeps ==
  ASSUME UsageInv, NEW s \in Scans, NEW w \in Workers, Ask(s, w)
  PROVE  UsageInv'
<1>1. PICK a : a = scans[s].cursor
  OBVIOUS
<1>2. PICK q : q = [scans[s] EXCEPT !.cursor = a + 1]
  OBVIOUS
<1>3. PICK lookup : lookup = [NoLookup EXCEPT !.of = a, !.since = time]
  OBVIOUS
<1>4. PICK r : r = [q EXCEPT !.lookups[w] = lookup]
  OBVIOUS
<1>5. Free(s, w) /\ UNCHANGED <<time, usedAt, faults, usageCache>>
  BY DEF Ask
<1>6. a \in Branch /\ a + 1 \in 0..MaxDiscovery /\ q \in Scan /\ Answering(q, a)
  BY <1>1, <1>2, <1>5, FreeWorker
<1>7. scans[s] \in Scan /\ Timely(scans[s])
  BY DEF UsageInv, UsageTypeOK
<1>8. scans' = [scans EXCEPT ![s] = r]
  BY <1>1, <1>2, <1>3, <1>4, <1>7 DEF Ask, Scan
<1>9. lookup.of = a /\ lookup.since = time /\ lookup.tries = 0 /\ lookup \in Lookup
  <2>1. lookup = [of |-> a, since |-> time, tries |-> 0]
    BY <1>3 DEF NoLookup
  <2>2. time \in 0..EndOfTime /\ a \in Branch \cup {-1} /\ 0 \in 0..1
    BY <1>6, UsageTimes
  <2>3. lookup \in Lookup
    BY <2>1, <2>2 DEF Lookup
  <2> QED BY <2>1, <2>3
<1>10. /\ r \in Scan /\ r.does = q.does /\ r.long = q.long /\ r.cursor = q.cursor /\ r.last = q.last
       /\ r.seen = q.seen /\ r.used = q.used /\ r.unused = q.unused
       /\ r.lookups = [q.lookups EXCEPT ![w] = lookup]
  BY <1>4, <1>6, <1>9 DEF Scan, Lookup
<1>11. r.lookups[w] = lookup /\ \A v \in Workers \ {w} : r.lookups[v] = q.lookups[v]
  BY <1>6, <1>10 DEF Scan
<1>12. q.cursor = a + 1 /\ q.long = scans[s].long /\ q.lookups = scans[s].lookups
  BY <1>2, <1>7 DEF Scan
<1>13. a \in Int
  BY <1>6, UsageNumbers
<1>14. ASSUME r.does \in {"next", "prefix"}
       PROVE  Discovering(r)
  <2>1. NoneAsked(q) /\ Known(q) \subseteq q.seen /\ q.seen = 0..(a - 1)
    BY <1>6, <1>10, <1>14 DEF Answering
  <2>2. r.seen = 0..(r.cursor - 2)
    BY <1>10, <1>12, <1>13, <2>1
  <2>3. r.lookups[w].of \in Branch /\ r.lookups[w].of = r.cursor - 1
    BY <1>6, <1>9, <1>10, <1>11, <1>12, <1>13
  <2>4. \A v \in Workers \ {w} : r.lookups[v] = NoLookup
    BY <1>11, <2>1 DEF NoneAsked
  <2>5. Known(r) \subseteq r.seen
    BY <1>10, <2>1 DEF Known
  <2> QED BY <2>2, <2>3, <2>4, <2>5 DEF Discovering
<1>15. ASSUME r.does \in {"balance", "change"}
       PROVE  Spread(r)
  <2>1. Spread(q)
    BY <1>6, <1>10, <1>15 DEF Answering
  <2>2. lookup.of < r.cursor
    BY <1>9, <1>10, <1>12, <1>13
  <2> QED BY <1>10, <1>11, <2>1, <2>2 DEF Spread
<1>16. Shaped(r)
  BY <1>6, <1>10, <1>14, <1>15 DEF Shaped, Answering, Results
<1>17. Timely(r)
  <2>1. Timely(q)
    BY <1>7, <1>12, TimelySame
  <2>2. a \in r.long => usedAt[a] < time
    <3>1. a \in q.long => usedAt[a] < time - Staleness
      BY <2>1 DEF Timely
    <3>2. usedAt[a] \in Int /\ time \in Int /\ Staleness \in Nat
      BY <1>6, UsageTimes, UsageNumbers
    <3> QED BY <1>10, <3>1, <3>2
  <2>3. time <= time + Timeout /\ time <= time
    BY UsageTimes, UsageNumbers
  <2>4. ASSUME NEW v \in Workers, r.lookups[v].of \in Branch
        PROVE  /\ r.lookups[v].since <= time /\ time <= r.lookups[v].since + Timeout
               /\ r.lookups[v].of \in r.long => usedAt[r.lookups[v].of] < r.lookups[v].since
    <3>1. CASE v = w
      BY <1>9, <1>11, <2>2, <2>3, <3>1
    <3>2. CASE v # w
      BY <1>10, <1>11, <2>1, <2>4, <3>2 DEF Timely
    <3> QED BY <3>1, <3>2
  <2> QED BY <1>10, <2>1, <2>4 DEF Timely
<1> QED BY <1>5, <1>8, <1>16, <1>17, ScanChanges DEF UsageInv, UsageTypeOK, EntryIsTrue

\* A scan whose lookup ends is ready for its answer.
LEMMA AnsweredWorker ==
  ASSUME UsageInv, NEW s \in Scans, NEW w \in Workers, Idle,
         NEW a \in Branch, a = scans[s].lookups[w].of,
         NEW q, q = [scans[s] EXCEPT !.lookups[w] = NoLookup]
  PROVE  /\ q \in Scan /\ Answering(q, a) /\ Timely(q)
         /\ q.long = scans[s].long
<1>1. PICK t : t = scans[s]
  OBVIOUS
<1>2. t \in Scan /\ Shaped(t) /\ Timely(t) /\ t.does \notin Results
  BY <1>1 DEF UsageInv, UsageTypeOK, Idle
<1>3. /\ q \in Scan /\ q.does = t.does /\ q.long = t.long /\ q.cursor = t.cursor /\ q.last = t.last
      /\ q.seen = t.seen /\ q.used = t.used /\ q.unused = t.unused
      /\ q.lookups = [t.lookups EXCEPT ![w] = NoLookup]
  BY <1>1, <1>2, NoneIsScan DEF Scan, Lookup
<1>4. q.lookups[w] = NoLookup /\ \A v \in Workers \ {w} : q.lookups[v] = t.lookups[v]
  BY <1>2, <1>3 DEF Scan
<1>5. t.lookups[w] # NoLookup /\ t.lookups[w].of = a
  BY <1>1, NoneIsScan, UsageNumbers
<1>6. a \in Int /\ t.cursor \in Nat
  BY <1>2, UsageNumbers DEF Scan
<1>7. ASSUME t.does \in {"next", "prefix"}
      PROVE  NoneAsked(q) /\ Known(q) \subseteq q.seen /\ q.seen = 0..(a - 1) /\ q.cursor = a + 1
  <2>1. Discovering(t)
    BY <1>2, <1>7 DEF Shaped
  <2>2. PICK u \in Workers : /\ t.lookups[u].of \in Branch /\ t.lookups[u].of = t.cursor - 1
                             /\ \A v \in Workers \ {u} : t.lookups[v] = NoLookup
                             /\ t.seen = 0..(t.cursor - 2)
    BY <1>5, <2>1 DEF Discovering, NoneAsked
  <2>3. u = w
    BY <1>5, <2>2
  <2>4. a = t.cursor - 1 /\ t.cursor - 2 = a - 1 /\ t.cursor = a + 1
    <3>1. a = t.cursor - 1
      BY <1>5, <2>2, <2>3
    <3> QED BY <1>6, <3>1
  <2>5. NoneAsked(q)
    BY <1>4, <2>2, <2>3 DEF NoneAsked
  <2>6. Known(q) \subseteq q.seen
    BY <1>3, <2>1 DEF Discovering, Known
  <2> QED BY <1>3, <2>2, <2>4, <2>5, <2>6
<1>8. ASSUME t.does \in {"balance", "change"}
      PROVE  Spread(q) /\ a < q.cursor
  <2>1. Spread(t)
    BY <1>2, <1>8 DEF Shaped
  <2>2. -1 < q.cursor
    BY <1>3, <1>6
  <2> QED BY <1>3, <1>4, <1>5, <2>1, <2>2, NoneIsScan DEF Spread
<1>9. Answering(q, a)
  BY <1>2, <1>3, <1>7, <1>8 DEF Answering, Shaped
<1>10. Timely(q)
  <2>1. ASSUME NEW v \in Workers, q.lookups[v].of \in Branch
        PROVE  v # w /\ q.lookups[v] = t.lookups[v]
    BY <1>4, <2>1, NoneIsScan, UsageNumbers
  <2> QED BY <1>2, <1>3, <2>1 DEF Timely
<1> QED BY <1>1, <1>3, <1>9, <1>10

LEMMA FailKeeps ==
  ASSUME UsageInv, NEW s \in Scans, NEW w \in Workers, Fail(s, w)
  PROVE  UsageInv'
<1>1. PICK a : a = scans[s].lookups[w].of
  OBVIOUS
<1>2. PICK q : q = [scans[s] EXCEPT !.lookups[w] = NoLookup]
  OBVIOUS
<1>3. PICK r : r = Recorded(q, a, "unknown")
  OBVIOUS
<1>4. /\ Idle /\ a \in Branch /\ scans' = [scans EXCEPT ![s] = r]
      /\ UNCHANGED <<time, usedAt, usageCache>> /\ faults < MaxFaults /\ faults' = faults + 1
  BY <1>1, <1>2, <1>3 DEF Fail, Fault
<1>5. q \in Scan /\ Answering(q, a) /\ Timely(q)
  BY <1>1, <1>2, <1>4, AnsweredWorker
<1>6. Shaped(r) /\ r.long = q.long /\ r.lookups = q.lookups
  BY <1>3, <1>4, <1>5, RecordedShaped DEF Usage
<1>7. Timely(r)
  BY <1>5, <1>6, TimelySame
<1>8. faults' \in 0..MaxFaults
  BY <1>4, UsageAssumption DEF UsageInv, UsageTypeOK
<1> QED BY <1>4, <1>6, <1>7, <1>8, ScanChanges DEF UsageInv, UsageTypeOK, EntryIsTrue

LEMMA ArriveKeeps ==
  ASSUME UsageInv, NEW s \in Scans, NEW w \in Workers, Arrive(s, w)
  PROVE  UsageInv'
<1>1. PICK lookup : lookup = scans[s].lookups[w]
  OBVIOUS
<1>2. PICK a : a = lookup.of
  OBVIOUS
<1>3. PICK q : q = [scans[s] EXCEPT !.lookups[w] = NoLookup]
  OBVIOUS
<1>4. PICK usage \in Readings(lookup) :
        /\ IF usage = "unknown" THEN Fault ELSE UNCHANGED faults
        /\ usageCache' = Stored(a, usage)
        /\ scans' = [scans EXCEPT ![s] = Recorded(q, a, usage)]
  BY <1>1, <1>2, <1>3 DEF Arrive
<1>5. PICK r : r = Recorded(q, a, usage)
  OBVIOUS
<1>6. Idle /\ a \in Branch /\ UNCHANGED <<time, usedAt>> /\ scans' = [scans EXCEPT ![s] = r]
  BY <1>1, <1>2, <1>4, <1>5 DEF Arrive
<1>7. q \in Scan /\ Answering(q, a) /\ Timely(q) /\ q.long = scans[s].long
  BY <1>1, <1>2, <1>3, <1>6, AnsweredWorker
<1>8. /\ usage \in Usage
      /\ usage = "used" => usedAt[a] <= time
      /\ usage = "unused" => usedAt[a] >= lookup.since
  BY <1>2 DEF Readings, Usage
<1>9. /\ lookup.since <= time /\ time <= lookup.since + Timeout
      /\ a \in scans[s].long => usedAt[a] < lookup.since
  BY <1>1, <1>2, <1>6 DEF UsageInv, Timely
<1>10. /\ lookup.since \in Int /\ usedAt[a] \in Int /\ time \in Int /\ Timeout \in Int /\ CacheTtl \in Nat
       /\ Staleness = CacheTtl + Timeout /\ time \in 0..EndOfTime /\ EndOfTime \in Nat
  <2>1. scans[s] \in Scan
    BY DEF UsageInv, UsageTypeOK
  <2>2. lookup \in Lookup
    BY <1>1, <2>1 DEF Scan, Lookup
  <2>3. lookup.since \in 0..EndOfTime
    BY <2>2 DEF Lookup
  <2> QED BY <1>6, <2>3, UsageTimes, UsageNumbers
<1>11. usage = "unused" => a \notin q.long
  BY <1>7, <1>8, <1>9, <1>10
<1>12. Shaped(r) /\ r.long = q.long /\ r.lookups = q.lookups
  BY <1>5, <1>6, <1>7, <1>8, <1>11, RecordedShaped
<1>13. Timely(r)
  BY <1>7, <1>12, TimelySame
<1>14. faults' \in 0..MaxFaults
  <2>1. MaxFaults \in Nat /\ faults \in 0..MaxFaults
    BY UsageAssumption DEF UsageInv, UsageTypeOK
  <2>2. faults' = faults \/ (faults < MaxFaults /\ faults' = faults + 1)
    BY <1>4 DEF Fault
  <2> QED BY <2>1, <2>2
<1>15. PICK expiresAt : expiresAt = time + CacheTtl
  OBVIOUS
<1>16. /\ usageCache' = [b \in Branch |-> IF b = a THEN [value |-> usage, expiresAt |-> expiresAt]
                                          ELSE IF usageCache[b].expiresAt <= time THEN NoEntry ELSE usageCache[b]]
       /\ expiresAt \in 0..(EndOfTime + CacheTtl)
  BY <1>4, <1>10, <1>15 DEF Stored
<1>17. NoEntry \in [value: Usage, expiresAt: 0..(EndOfTime + CacheTtl)] /\ NoEntry.value = "unknown" /\ NoEntry.expiresAt = 0
  BY <1>10 DEF NoEntry, Usage
<1>18. usageCache' \in [Branch -> [value: Usage, expiresAt: 0..(EndOfTime + CacheTtl)]]
  BY <1>8, <1>16, <1>17 DEF UsageInv, UsageTypeOK
<1>19. ASSUME NEW b \in Branch
       PROVE  EntryIsTrue(b)'
  <2>1. CASE b = a
    <3>1. usageCache'[b].value = usage /\ usageCache'[b].expiresAt = expiresAt
      BY <1>16, <2>1
    <3>2. usage = "unused" => usedAt[a] >= expiresAt - Staleness
      BY <1>8, <1>9, <1>10, <1>15
    <3>3. expiresAt <= time + CacheTtl
      BY <1>10, <1>15
    <3> QED BY <1>6, <1>8, <2>1, <3>1, <3>2, <3>3 DEF EntryIsTrue
  <2>2. CASE b # a /\ usageCache'[b] = NoEntry
    <3>1. 0 <= time + CacheTtl
      BY <1>10
    <3> QED BY <1>6, <1>17, <2>2, <3>1 DEF EntryIsTrue
  <2>3. CASE b # a /\ usageCache'[b] = usageCache[b]
    BY <1>6, <2>3 DEF EntryIsTrue, UsageInv
  <2> QED BY <1>16, <2>1, <2>2, <2>3
<1> QED BY <1>6, <1>12, <1>13, <1>14, <1>18, <1>19, ScanChanges DEF UsageInv, UsageTypeOK

LEMMA RetryKeeps ==
  ASSUME UsageInv, NEW s \in Scans, NEW w \in Workers, Retry(s, w)
  PROVE  UsageInv'
<1>1. PICK t : t = scans[s]
  OBVIOUS
<1>2. PICK lookup : lookup = [t.lookups[w] EXCEPT !.tries = 1, !.since = time]
  OBVIOUS
<1>3. PICK r : r = [t EXCEPT !.lookups[w] = lookup]
  OBVIOUS
<1>4. t \in Scan /\ Shaped(t) /\ Timely(t) /\ t.lookups[w] \in Lookup
  BY <1>1 DEF UsageInv, UsageTypeOK, Scan, Lookup
<1>5. /\ Idle /\ t.lookups[w].of \in Branch /\ UNCHANGED <<time, usedAt, usageCache>>
      /\ faults < MaxFaults /\ faults' = faults + 1
  BY <1>1 DEF Retry, Fault
<1>6. scans' = [scans EXCEPT ![s] = r]
  BY <1>1, <1>2, <1>3, <1>4 DEF Retry, Scan
<1>7. lookup \in Lookup /\ lookup.of = t.lookups[w].of /\ lookup.since = time
  <2>1. PICK old : old = t.lookups[w]
    OBVIOUS
  <2>2. lookup = [old EXCEPT !.tries = 1, !.since = time] /\ old \in Lookup
    BY <1>2, <1>4, <2>1
  <2>3. time \in 0..EndOfTime /\ 1 \in 0..1
    BY UsageTimes
  <2>4. lookup = [of |-> old.of, since |-> time, tries |-> 1] /\ old.of \in Branch \cup {-1}
    BY <2>2 DEF Lookup
  <2>5. lookup \in Lookup
    BY <2>3, <2>4 DEF Lookup
  <2> QED BY <2>1, <2>4, <2>5
<1>8. /\ r \in Scan /\ r.does = t.does /\ r.long = t.long /\ r.cursor = t.cursor /\ r.last = t.last
      /\ r.seen = t.seen /\ r.used = t.used /\ r.unused = t.unused /\ r.gap = t.gap
      /\ r.lookups = [t.lookups EXCEPT ![w] = lookup]
  BY <1>3, <1>4, <1>7 DEF Scan, Lookup
<1>9. r.lookups[w] = lookup /\ \A v \in Workers \ {w} : r.lookups[v] = t.lookups[v]
  BY <1>4, <1>8 DEF Scan
<1>10. t.lookups[w] # NoLookup
  BY <1>5, NoneIsScan, UsageNumbers
<1>11. ASSUME Discovering(t)
       PROVE  Discovering(r)
  <2>1. PICK u \in Workers : /\ t.lookups[u].of \in Branch /\ t.lookups[u].of = t.cursor - 1
                             /\ \A v \in Workers \ {u} : t.lookups[v] = NoLookup
                             /\ t.seen = 0..(t.cursor - 2)
    BY <1>10, <1>11 DEF Discovering, NoneAsked
  <2>2. u = w
    BY <1>10, <2>1
  <2>3. Known(r) \subseteq r.seen
    BY <1>8, <1>11 DEF Discovering, Known
  <2>4. /\ r.lookups[w].of \in Branch /\ r.lookups[w].of = r.cursor - 1 /\ r.seen = 0..(r.cursor - 2)
        /\ \A v \in Workers \ {w} : r.lookups[v] = NoLookup
    BY <1>7, <1>8, <1>9, <2>1, <2>2
  <2> QED BY <2>3, <2>4 DEF Discovering
<1>12. ASSUME Spread(t)
       PROVE  Spread(r)
  BY <1>7, <1>8, <1>9, <1>12 DEF Spread
<1>13. Shaped(r)
  BY <1>1, <1>4, <1>5, <1>8, <1>11, <1>12 DEF Shaped, Idle, Results
<1>14. Timely(r)
  <2>1. \A a \in t.long : usedAt[a] < time
    <3>1. ASSUME NEW a \in t.long
          PROVE  usedAt[a] < time
      <4>1. a \in Branch /\ usedAt[a] < time - Staleness
        BY <1>4 DEF Scan, Timely
      <4>2. usedAt[a] \in Int /\ time \in Int /\ Staleness \in Nat
        BY <4>1, UsageTimes, UsageNumbers
      <4> QED BY <4>1, <4>2
    <3> QED BY <3>1
  <2>2. time <= time + Timeout /\ time <= time
    BY UsageTimes, UsageNumbers
  <2>3. ASSUME NEW v \in Workers, r.lookups[v].of \in Branch
        PROVE  /\ r.lookups[v].since <= time /\ time <= r.lookups[v].since + Timeout
               /\ r.lookups[v].of \in r.long => usedAt[r.lookups[v].of] < r.lookups[v].since
    <3>1. CASE v = w
      BY <1>7, <1>8, <1>9, <2>1, <2>2, <3>1
    <3>2. CASE v # w
      BY <1>4, <1>8, <1>9, <2>3, <3>2 DEF Timely
    <3> QED BY <3>1, <3>2
  <2> QED BY <1>4, <1>8, <2>3 DEF Timely
<1>15. faults' \in 0..MaxFaults
  BY <1>5, UsageAssumption DEF UsageInv, UsageTypeOK
<1> QED BY <1>5, <1>6, <1>13, <1>14, <1>15, ScanChanges DEF UsageInv, UsageTypeOK, EntryIsTrue

LEMMA ReceiveKeeps ==
  ASSUME UsageInv, NEW a \in Branch, Receive(a)
  PROVE  UsageInv'
<1>1. usedAt[a] = Never /\ usedAt' = [usedAt EXCEPT ![a] = time] /\ UNCHANGED <<time, faults, usageCache, scans>>
  BY DEF Receive
<1>2. usedAt \in [Branch -> {Long} \cup 0..Never]
  BY DEF UsageInv, UsageTypeOK
<1>3. usedAt'[a] = time /\ \A b \in Branch \ {a} : usedAt'[b] = usedAt[b]
  BY <1>1, <1>2
<1>4. /\ time \in 0..EndOfTime /\ EndOfTime \in Nat /\ Never = EndOfTime + 1
      /\ Staleness = CacheTtl + Timeout /\ CacheTtl \in Nat /\ Timeout \in Nat
  BY UsageTimes, UsageNumbers
<1>5. time \in 0..Never /\ time < Never /\ ~(Never < time - Staleness)
  BY <1>4
<1>6. UsageTypeOK'
  BY <1>1, <1>2, <1>5 DEF UsageInv, UsageTypeOK
<1>7. UsedInPast'
  <2>1. time <= time
    BY <1>4
  <2> QED BY <1>1, <1>3, <2>1 DEF UsedInPast, UsageInv
<1>8. ASSUME NEW b \in Branch
      PROVE  EntryIsTrue(b)'
  <2>1. PICK e : e = usageCache[b].expiresAt
    OBVIOUS
  <2>2. e <= time + CacheTtl /\ e \in Int
    BY <2>1, UsageTimes DEF UsageInv, EntryIsTrue
  <2>3. time >= e - Staleness /\ time <= time
    BY <1>4, <2>2
  <2>4. CASE b = a
    BY <1>1, <1>3, <2>1, <2>2, <2>3, <2>4 DEF EntryIsTrue
  <2>5. CASE b # a
    BY <1>1, <1>3, <2>5 DEF EntryIsTrue, UsageInv
  <2> QED BY <2>4, <2>5
<1>9. ASSUME NEW i \in Scans
      PROVE  Timely(scans[i])'
  <2>1. Timely(scans[i]) /\ scans[i] \in Scan
    BY DEF UsageInv, UsageTypeOK
  <2>2. a \notin scans[i].long
    BY <1>1, <1>5, <2>1 DEF Timely
  <2>3. \A b \in scans[i].long : usedAt'[b] = usedAt[b]
    BY <1>3, <2>1, <2>2 DEF Scan
  <2> QED BY <1>1, <2>1, <2>3 DEF Timely
<1> QED BY <1>1, <1>6, <1>7, <1>8, <1>9 DEF UsageInv

LEMMA TickKeeps ==
  ASSUME UsageInv, Tick
  PROVE  UsageInv'
<1>1. time' = time + 1 /\ time < EndOfTime /\ UNCHANGED <<usedAt, faults, usageCache, scans>>
  BY DEF Tick
<1>2. /\ time \in 0..EndOfTime /\ EndOfTime \in Nat
      /\ Staleness \in Nat /\ CacheTtl \in Nat /\ Timeout \in Nat
  BY UsageTimes, UsageNumbers
<1>3. time' \in 0..EndOfTime /\ \A n \in Int : n <= time => n <= time'
  BY <1>1, <1>2
<1>4. UsageTypeOK'
  BY <1>1, <1>3 DEF UsageInv, UsageTypeOK
<1>5. UsedInPast'
  BY <1>1, <1>3, UsageTimes DEF UsageInv, UsedInPast
<1>6. ASSUME NEW a \in Branch
      PROVE  EntryIsTrue(a)'
  <2>1. PICK e, u : e = usageCache[a].expiresAt /\ u = usedAt[a]
    OBVIOUS
  <2>2. e \in Int /\ u \in Int
    BY <2>1, UsageTimes
  <2>3. e <= time + CacheTtl /\ (usageCache[a].value = "unused" => u >= e - Staleness)
        /\ (usageCache[a].value = "used" => u <= time)
    BY <2>1 DEF UsageInv, EntryIsTrue
  <2>4. e <= time' + CacheTtl /\ (u <= time => u <= time')
    BY <1>1, <1>2, <2>2, <2>3
  <2> QED BY <1>1, <2>1, <2>3, <2>4 DEF EntryIsTrue
<1>7. ASSUME NEW i \in Scans
      PROVE  Timely(scans[i])'
  <2>1. PICK s : s = scans[i]
    OBVIOUS
  <2>2. s \in Scan /\ Timely(s)
    BY <2>1 DEF UsageInv, UsageTypeOK
  <2>3. ASSUME NEW a \in s.long
        PROVE  usedAt[a] < time' - Staleness
    <3>1. usedAt[a] \in Int /\ usedAt[a] < time - Staleness
      BY <2>2, UsageTimes DEF Scan, Timely
    <3> QED BY <1>1, <1>2, <3>1
  <2>4. ASSUME NEW w \in Workers, s.lookups[w].of \in Branch
        PROVE  /\ s.lookups[w].since <= time' /\ time' <= s.lookups[w].since + Timeout
               /\ s.lookups[w].of \in s.long => usedAt[s.lookups[w].of] < s.lookups[w].since
    <3>1. PICK since : since = s.lookups[w].since
      OBVIOUS
    <3>2. time < since + Timeout
      BY <2>1, <2>4, <3>1 DEF Tick
    <3>3. /\ since <= time
          /\ s.lookups[w].of \in s.long => usedAt[s.lookups[w].of] < since
      BY <2>2, <2>4, <3>1 DEF Timely
    <3>4. since \in 0..EndOfTime
      BY <2>2, <3>1 DEF Scan
    <3>5. since <= time' /\ time' <= since + Timeout
      BY <1>1, <1>2, <3>2, <3>3, <3>4
    <3> QED BY <3>1, <3>3, <3>5
  <2> QED BY <1>1, <2>1, <2>3, <2>4 DEF Timely
<1> QED BY <1>1, <1>4, <1>5, <1>6, <1>7 DEF UsageInv

LEMMA UsageInvariant == UsageSpec => []UsageInv
<1>1. UsageInit => UsageInv
  <2> SUFFICES ASSUME UsageInit PROVE UsageInv
    OBVIOUS
  <2>1. PICK used \in InitiallyUsed : usedAt = [a \in Branch |-> IF a \in used THEN Long ELSE Never]
    BY DEF UsageInit
  <2>2. time = 0 /\ faults = 0 /\ usageCache = [a \in Branch |-> NoEntry] /\ scans = [s \in Scans |-> NoScan]
    BY DEF UsageInit
  <2>3. /\ 0 \in 0..EndOfTime /\ 0 <= CacheTtl /\ 0 \in 0..(EndOfTime + CacheTtl) /\ Never \in 0..Never
        /\ Long <= 0 /\ 0 <= 0 + CacheTtl
    BY UsageNumbers DEF Long
  <2>4. 0 \in 0..MaxFaults
    BY UsageAssumption
  <2>5. UsageTypeOK
    BY <2>1, <2>2, <2>3, <2>4, NoneIsScan DEF UsageTypeOK, NoEntry, Usage
  <2>6. UsedInPast
    BY <2>1, <2>2, <2>3 DEF UsedInPast
  <2>7. \A a \in Branch : EntryIsTrue(a)
    BY <2>2, <2>3 DEF EntryIsTrue, NoEntry
  <2>8. /\ NoScan.does = "nothing" /\ NoScan.long = {} /\ NoScan.used = {} /\ NoScan.unused = {}
        /\ NoScan.lookups = [w \in Workers |-> NoLookup]
    BY DEF NoScan
  <2>9. Shaped(NoScan) /\ Timely(NoScan)
    BY <2>8, NoneIsScan, UsageNumbers DEF Shaped, Timely
  <2> QED BY <2>2, <2>5, <2>6, <2>7, <2>9 DEF UsageInv
<1>2. UsageInv /\ [UsageNext]_usageVars => UsageInv'
  <2> SUFFICES ASSUME UsageInv, [UsageNext]_usageVars PROVE UsageInv'
    OBVIOUS
  <2>1. CASE UNCHANGED usageVars
    <3>1. UNCHANGED <<time, usedAt, faults, usageCache, scans>>
      BY <2>1 DEF usageVars
    <3> QED BY <3>1 DEF UsageInv, UsageTypeOK, UsedInPast, EntryIsTrue, Timely
  <2>2. CASE UsageNext
    BY <2>2, TickKeeps, ReceiveKeeps, StartKeeps, DeliverKeeps, TakeCachedKeeps, AskKeeps, ArriveKeeps,
       RetryKeeps, FailKeeps DEF UsageNext
  <2> QED BY <2>1, <2>2
<1> QED BY <1>1, <1>2, PTL DEF UsageSpec

(* Clock, addresses, cache and scans have their types.                     *)
THEOREM UsageTypeCorrect == UsageSpec => []UsageTypeOK
<1>1. UsageInv => UsageTypeOK
  BY DEF UsageInv
<1> QED BY <1>1, UsageInvariant, PTL

(* An answer in the cache is not news of long ago: unused was still so     *)
(* within the cache's life and the time-out, however many lookups of the   *)
(* address overlapped (lookupAddressStats).                                *)
THEOREM UsageCacheIsRecent == UsageSpec => []CacheIsRecent
<1>1. UsageInv => CacheIsRecent
  <2> SUFFICES ASSUME UsageInv, NEW a \in Branch, Cached(a)
               PROVE  /\ usageCache[a].value = "unused" => usedAt[a] >= time - Staleness
                      /\ usageCache[a].value = "used" => usedAt[a] <= time
    BY DEF CacheIsRecent
  <2>1. PICK e, u : e = usageCache[a].expiresAt /\ u = usedAt[a]
    OBVIOUS
  <2>2. e \in Int /\ u \in Int /\ time \in Int /\ Staleness \in Int
    BY <2>1, UsageTimes, UsageNumbers
  <2>3. /\ e > time
        /\ usageCache[a].value = "unused" => u >= e - Staleness
        /\ usageCache[a].value = "used" => u <= time
    BY <2>1 DEF UsageInv, EntryIsTrue, Cached
  <2>4. u >= e - Staleness => u >= time - Staleness
    BY <2>2, <2>3
  <2> QED BY <2>1, <2>3, <2>4
<1> QED BY <1>1, UsageInvariant, PTL

\* A set of integers with an upper bound has a greatest one.
LEMMA Greatest ==
  ASSUME NEW S, S \subseteq Int, S # {}, NEW b \in Int, \A x \in S : x <= b
  PROVE  Max(S) \in S /\ \A x \in S : Max(S) >= x
<1>1. {b - x : x \in S} \subseteq Nat /\ {b - x : x \in S} # {}
  <2>1. \A x \in S : b - x \in Nat
    OBVIOUS
  <2> QED BY <2>1
<1>2. PICK m \in {b - x : x \in S} : \A n \in {b - x : x \in S} : m <= n
  BY <1>1, LeastNatural
<1>3. PICK y \in S : m = b - y
  BY <1>2
<1>4. \A x \in S : b - y <= b - x
  BY <1>2, <1>3
<1>5. \A x \in S : y >= x
  BY <1>4
<1> QED BY <1>5 DEF Max

\* The gap that a discovery has reached is a run of unused addresses up to the
\* last it has seen.
LEMMA GapIsARun ==
  ASSUME NEW s, NEW n \in Nat, s.seen = 0..n, GapReached(s)
  PROVE  \E k \in 0..(n + 1) : k >= GapLimit /\ \A i \in (n - k + 1)..n : i \in s.unused
<1>1. Max(s.seen \cup {-1}) = n
  <2> DEFINE S == s.seen \cup {-1}
  <2>1. S \subseteq Int /\ n \in S /\ \A x \in S : x <= n
    OBVIOUS
  <2> HIDE DEF S
  <2>2. Max(S) \in S /\ \A x \in S : Max(S) >= x
    BY <2>1, Greatest
  <2>3. Max(S) \in Int /\ Max(S) <= n /\ Max(S) >= n
    BY <2>1, <2>2
  <2> QED BY <2>3 DEF S
<1> DEFINE Runs == {k \in 0..(n + 1) : \A i \in (n - k + 1)..n : i \in s.unused}
<1>2. RunOfUnused(s) = Max(Runs)
  BY <1>1 DEF RunOfUnused, RunOf
<1>3. 0 \in Runs /\ Runs \subseteq Int /\ \A k \in Runs : k <= n + 1
  OBVIOUS
<1>4. Max(Runs) \in Runs
  <2> HIDE DEF Runs
  <2>1. n + 1 \in Int /\ Runs # {}
    BY <1>3
  <2> QED BY <1>3, <2>1, Greatest
<1> QED BY <1>2, <1>4 DEF GapReached

(* Scans are sound: none calls an address unused that was in use long      *)
(* before it; the gap a discovery ended with has no such address in it,    *)
(* whatever lookups failed; and when none failed, such an                  *)
(* address is below the one offered or beyond the gap, and the balance     *)
(* counts it or did not reach it.  It holds for every branch, gap limit    *)
(* and number of lookups at a time (discoverNextUnusedAddress,             *)
(* deriveWalletBalance, findNextChangeAddress).                            *)
THEOREM UsageScansAreSound == UsageSpec => []ScansAreSound
<1>1. UsageInv => ScansAreSound
  <2> SUFFICES ASSUME UsageInv, NEW i \in Scans, NEW s, s = scans[i]
               PROVE  /\ s.unused \cap s.long = {}
                      /\ s.gap /\ s.does = "found" => \A a \in s.long \cap s.seen : a <= Max(s.seen) - GapLimit
                      /\ s.gap /\ Unknown(s) = {} =>
                           /\ s.does = "found" =>
                                \A next \in NextUnused(s), a \in s.long : a < next \/ a >= next + GapLimit
                           /\ s.does = "counted" => \A a \in s.long : a \in s.used \/ a >= s.last
    BY DEF ScansAreSound
  <2>1. s \in Scan /\ Shaped(s)
    BY DEF UsageInv, UsageTypeOK
  <2>2. s.unused \cap s.long = {} /\ s.unused \cap s.used = {}
    BY <2>1 DEF Shaped
  <2>3. /\ s.long \subseteq Nat /\ s.used \subseteq Nat /\ s.last \in Nat /\ GapLimit \in Nat
    BY <2>1, UsageNumbers DEF Scan
  <2>4. ASSUME s.gap, Unknown(s) = {}, s.does = "found", NEW next \in NextUnused(s), NEW a \in s.long
        PROVE  a < next \/ a >= next + GapLimit
    <3>1. FoundAll(s)
      BY <2>1, <2>4 DEF Shaped
    <3>2. PICK n \in Branch : s.seen = 0..n
      BY <3>1 DEF FoundAll
    <3>3. n \in Nat /\ GapReached(s) /\ s.seen = Known(s)
      BY <2>4, <3>1, <3>2, UsageNumbers DEF FoundAll, Unknown
    <3>4. PICK k \in 0..(n + 1) : k >= GapLimit /\ \A j \in (n - k + 1)..n : j \in s.unused
      BY <3>2, <3>3, GapIsARun
    <3> DEFINE S == s.used \cup {-1}
    <3>5. S \subseteq Int /\ S # {} /\ \A x \in S : x <= n - k
      <4>1. ASSUME NEW x \in s.used
            PROVE  x <= n - k
        <5>1. x \in 0..n /\ x \notin s.unused
          BY <2>2, <3>2, <3>3 DEF Known
        <5> QED BY <3>3, <3>4, <5>1
      <4>2. -1 <= n - k
        BY <3>3, <3>4
      <4> QED BY <2>3, <4>1, <4>2
    <3> HIDE DEF S
    <3>6. n - k \in Int
      BY <3>3, <3>4
    <3>7. Max(S) \in S /\ \A x \in S : Max(S) >= x
      BY <3>5, <3>6, Greatest
    <3>8. next = Max(S) + 1
      BY <2>4 DEF NextUnused, S
    <3>9. PICK top \in Int : top = Max(S) /\ top <= n - k
      BY <3>5, <3>7
    <3>10. CASE a \in s.seen
      <4>1. a \in S
        BY <2>2, <3>3, <3>10 DEF Known, S
      <4>2. top >= a /\ a \in Int
        BY <2>3, <3>7, <3>9, <4>1
      <4> QED BY <3>8, <3>9, <4>2
    <3>11. CASE a \notin s.seen
      <4>1. a > n
        BY <2>3, <3>2, <3>3, <3>11
      <4> QED BY <2>3, <3>3, <3>4, <3>8, <3>9, <4>1
    <3> QED BY <3>10, <3>11
  <2>5. ASSUME Unknown(s) = {}, s.does = "counted", NEW a \in s.long
        PROVE  a \in s.used \/ a >= s.last
    <3>1. s.seen = 0..(s.last - 1) /\ s.seen \subseteq Known(s)
      BY <2>1, <2>5 DEF Shaped, Unknown
    <3>2. CASE a \in s.seen
      BY <2>2, <3>1, <3>2 DEF Known
    <3>3. CASE a \notin s.seen
      BY <2>3, <3>1, <3>3
    <3> QED BY <3>2, <3>3
  <2>6. ASSUME s.gap, s.does = "found", NEW a \in s.long \cap s.seen
        PROVE  a <= Max(s.seen) - GapLimit
    <3>1. FoundAll(s)
      BY <2>1, <2>6 DEF Shaped
    <3>2. PICK n \in Branch : s.seen = 0..n
      BY <3>1 DEF FoundAll
    <3>3. n \in Nat /\ GapReached(s)
      BY <2>6, <3>1, UsageNumbers DEF FoundAll
    <3>4. PICK k \in 0..(n + 1) : k >= GapLimit /\ \A j \in (n - k + 1)..n : j \in s.unused
      BY <3>2, <3>3, GapIsARun
    <3>5. Max(s.seen) = n
      <4>1. s.seen \subseteq Int /\ n \in s.seen /\ \A x \in s.seen : x <= n
        BY <3>2, <3>3
      <4>2. Max(s.seen) \in s.seen /\ \A x \in s.seen : Max(s.seen) >= x
        BY <3>3, <4>1, Greatest
      <4>3. Max(s.seen) \in Int /\ Max(s.seen) <= n /\ Max(s.seen) >= n
        BY <4>1, <4>2
      <4> QED BY <3>3, <4>3
    <3>6. a \in 0..n /\ a \notin (n - k + 1)..n
      BY <2>2, <2>6, <3>2, <3>4
    <3>7. a <= n - k
      BY <3>3, <3>4, <3>6
    <3> QED BY <2>3, <3>3, <3>4, <3>5, <3>6, <3>7
  <2> QED BY <2>2, <2>4, <2>5, <2>6
<1> QED BY <1>1, UsageInvariant, PTL

-----------------------------------------------------------------------------
(* The transactions.  The argument: the transactions of an address are a   *)
(* list ordered by height, newest first, that grows only at its front.     *)
(* What an address has given and each first page in the cache are a part   *)
(* of it without a gap, and stay one; and the page after the last of such  *)
(* a part begins where that ends, because what is older than it is what    *)
(* comes behind it.                                                        *)

\* What is kept of the first entries of a list, for each number of them
Filters(list, these, f, m) ==
  f[0] = <<>> /\ \A n \in 1..m : f[n] = IF list[n] \in these THEN Append(f[n - 1], list[n]) ELSE f[n - 1]

LEMMA FiltersExist ==
  ASSUME NEW S, NEW list \in Seq(S), NEW these, NEW m \in 0..Len(list)
  PROVE  \E f \in [0..m -> Seq(S)] : Filters(list, these, f, m)
<1> DEFINE Has(n) == \E f \in [0..n -> Seq(S)] : Filters(list, these, f, n)
           Bad == {n \in 0..Len(list) : ~Has(n)}
<1>1. SUFFICES ASSUME Bad # {} PROVE FALSE
  OBVIOUS
<1> HIDE DEF Has
<1>2. PICK least \in Bad : \A n \in Bad : least <= n
  <2>1. Bad \subseteq Nat
    OBVIOUS
  <2> HIDE DEF Bad
  <2> QED BY <1>1, <2>1, LeastNatural
<1>3. Has(0)
  <2>1. <<>> \in Seq(S)
    OBVIOUS
  <2>2. [n \in 0..0 |-> <<>>] \in [0..0 -> Seq(S)] /\ Filters(list, these, [n \in 0..0 |-> <<>>], 0)
    BY <2>1 DEF Filters
  <2> QED BY <2>2 DEF Has
<1>4. least \in 1..Len(list)
  <2>1. least \in 0..Len(list) /\ least # 0
    BY <1>2, <1>3
  <2> QED BY <2>1
<1>5. Has(least - 1)
  <2>1. least - 1 \in 0..Len(list) /\ ~(least <= least - 1)
    BY <1>4
  <2> QED BY <1>2, <2>1
<1>6. PICK f \in [0..(least - 1) -> Seq(S)] : Filters(list, these, f, least - 1)
  BY <1>5 DEF Has
<1>7. PICK last : last = IF list[least] \in these THEN Append(f[least - 1], list[least]) ELSE f[least - 1]
  OBVIOUS
<1>8. last \in Seq(S)
  <2>1. list[least] \in S /\ f[least - 1] \in Seq(S)
    BY <1>4, <1>6
  <2> QED BY <1>7, <2>1
<1> DEFINE g == [n \in 0..least |-> IF n = least THEN last ELSE f[n]]
<1>9. g \in [0..least -> Seq(S)]
  BY <1>4, <1>6, <1>8
<1>10. Filters(list, these, g, least)
  <2>1. g[0] = <<>>
    BY <1>4, <1>6 DEF Filters
  <2>2. ASSUME NEW n \in 1..least
        PROVE  g[n] = IF list[n] \in these THEN Append(g[n - 1], list[n]) ELSE g[n - 1]
    <3>1. CASE n = least
      <4>1. g[n] = last /\ g[n - 1] = f[least - 1]
        BY <1>4, <3>1
      <4> QED BY <1>7, <3>1, <4>1
    <3>2. CASE n # least
      <4>1. n \in 1..(least - 1) /\ g[n] = f[n] /\ g[n - 1] = f[n - 1]
        BY <1>4, <3>2
      <4> QED BY <1>6, <4>1 DEF Filters
    <3> QED BY <3>1, <3>2
  <2> QED BY <2>1, <2>2 DEF Filters
<1> QED BY <1>2, <1>9, <1>10 DEF Has

LEMMA KeptFilters ==
  ASSUME NEW S, NEW list \in Seq(S), NEW these
  PROVE  \E f \in [0..Len(list) -> Seq(S)] : Filters(list, these, f, Len(list)) /\ Kept(list, these) = f[Len(list)]
<1> DEFINE G == CHOOSE g : g = [n \in 0..Len(list) |->
                  IF n = 0 THEN <<>> ELSE IF list[n] \in these THEN Append(g[n - 1], list[n]) ELSE g[n - 1]]
<1>1. Kept(list, these) = G[Len(list)]
  BY DEF Kept
<1>2. PICK h \in [0..Len(list) -> Seq(S)] : Filters(list, these, h, Len(list))
  <2>1. Len(list) \in 0..Len(list)
    OBVIOUS
  <2> QED BY <2>1, FiltersExist
<1>3. h = [n \in 0..Len(list) |->
             IF n = 0 THEN <<>> ELSE IF list[n] \in these THEN Append(h[n - 1], list[n]) ELSE h[n - 1]]
  <2> DEFINE again == [n \in 0..Len(list) |->
                 IF n = 0 THEN <<>> ELSE IF list[n] \in these THEN Append(h[n - 1], list[n]) ELSE h[n - 1]]
  <2>1. DOMAIN h = 0..Len(list) /\ h = [n \in 0..Len(list) |-> h[n]]
    BY <1>2
  <2>2. ASSUME NEW n \in 0..Len(list) PROVE again[n] = h[n]
    <3>1. CASE n = 0
      BY <1>2, <3>1 DEF Filters
    <3>2. CASE n # 0
      <4>1. n \in 1..Len(list)
        BY <3>2
      <4>2. h[n] = IF list[n] \in these THEN Append(h[n - 1], list[n]) ELSE h[n - 1]
        BY <1>2, <4>1 DEF Filters
      <4> QED BY <3>2, <4>2, Zenon
    <3> QED BY <3>1, <3>2
  <2>3. again = [n \in 0..Len(list) |-> again[n]]
    OBVIOUS
  <2> HIDE DEF again
  <2>4. again = h
    BY <2>1, <2>2, <2>3
  <2> QED BY <2>4, Zenon DEF again
<1>4. G = [n \in 0..Len(list) |->
             IF n = 0 THEN <<>> ELSE IF list[n] \in these THEN Append(G[n - 1], list[n]) ELSE G[n - 1]]
  BY <1>3
<1> HIDE DEF G
<1>5. ASSUME NEW n \in 1..Len(list)
      PROVE  G[n] = IF list[n] \in these THEN Append(G[n - 1], list[n]) ELSE G[n - 1]
  <2>1. n # 0 /\ n \in 0..Len(list)
    OBVIOUS
  <2> QED BY <1>4, <2>1, Zenon
<1>6. G[0] = <<>>
  BY <1>4
<1> DEFINE Bad == {n \in 0..Len(list) : G[n] # h[n]}
<1>7. Bad = {}
  <2>1. SUFFICES ASSUME Bad # {} PROVE FALSE
    OBVIOUS
  <2>2. PICK least \in Bad : \A n \in Bad : least <= n
    <3>1. Bad \subseteq Nat
      OBVIOUS
    <3> HIDE DEF Bad
    <3> QED BY <2>1, <3>1, LeastNatural
  <2>3. least # 0
    BY <1>2, <1>6, <2>2 DEF Filters
  <2>4. least \in 1..Len(list) /\ least - 1 \in 0..Len(list) /\ ~(least <= least - 1)
    BY <2>2, <2>3
  <2>5. G[least - 1] = h[least - 1]
    BY <2>2, <2>4
  <2>6. h[least] = IF list[least] \in these THEN Append(h[least - 1], list[least]) ELSE h[least - 1]
    BY <1>2, <2>4 DEF Filters
  <2>7. G[least] = IF list[least] \in these THEN Append(G[least - 1], list[least]) ELSE G[least - 1]
    BY <1>5, <2>4, Zenon
  <2>8. G[least] = h[least]
    <3>1. CASE list[least] \in these
      BY <2>5, <2>6, <2>7, <3>1
    <3>2. CASE list[least] \notin these
      BY <2>5, <2>6, <2>7, <3>2
    <3> QED BY <3>1, <3>2
  <2> QED BY <2>2, <2>8
<1>8. G[Len(list)] = h[Len(list)]
  BY <1>7
<1> QED BY <1>1, <1>2, <1>8

\* What passes behind those that do not is kept as it is.
LEMMA KeptTail ==
  ASSUME NEW S, NEW list \in Seq(S), NEW these, NEW k \in 0..Len(list),
         \A n \in 1..Len(list) : list[n] \in these <=> n > k
  PROVE  /\ Kept(list, these) \in Seq(S)
         /\ Len(Kept(list, these)) = Len(list) - k
         /\ \A j \in 1..(Len(list) - k) : Kept(list, these)[j] = list[k + j]
<1>1. PICK f \in [0..Len(list) -> Seq(S)] : Filters(list, these, f, Len(list)) /\ Kept(list, these) = f[Len(list)]
  BY KeptFilters
<1> DEFINE Right(n) == IF n <= k THEN f[n] = <<>>
                       ELSE Len(f[n]) = n - k /\ \A j \in 1..(n - k) : f[n][j] = list[k + j]
           Bad == {n \in 0..Len(list) : ~Right(n)}
<1>2. Bad = {}
  <2>1. SUFFICES ASSUME Bad # {} PROVE FALSE
    OBVIOUS
  <2>2. PICK least \in Bad : \A n \in Bad : least <= n
    <3>1. Bad \subseteq Nat
      OBVIOUS
    <3> HIDE DEF Bad
    <3> QED BY <2>1, <3>1, LeastNatural
  <2>3. least # 0
    BY <1>1, <2>2 DEF Filters
  <2>4. least \in 1..Len(list) /\ least - 1 \in 0..Len(list) /\ ~(least <= least - 1)
    BY <2>2, <2>3
  <2>5. Right(least - 1)
    BY <2>2, <2>4
  <2>6. f[least] = IF list[least] \in these THEN Append(f[least - 1], list[least]) ELSE f[least - 1]
    BY <1>1, <2>4 DEF Filters
  <2>7. CASE least <= k
    <3>1. f[least] = f[least - 1] /\ least - 1 <= k
      BY <2>4, <2>6, <2>7
    <3>2. Right(least)
      BY <2>5, <2>7, <3>1
    <3> QED BY <2>2, <3>2
  <2>8. CASE least > k
    <3>1. PICK before, x : before = f[least - 1] /\ x = list[least]
      OBVIOUS
    <3>2. before \in Seq(S) /\ x \in S
      BY <1>1, <2>4, <3>1
    <3>3. Len(before) = (least - 1) - k /\ \A j \in 1..((least - 1) - k) : before[j] = list[k + j]
      BY <2>4, <2>5, <2>8, <3>1
    <3>4. f[least] = Append(before, x)
      BY <2>4, <2>6, <2>8, <3>1
    <3>5. Len(Append(before, x)) = least - k /\ \A j \in 1..(least - k) : Append(before, x)[j] = list[k + j]
      BY <2>4, <2>8, <3>1, <3>2, <3>3
    <3>6. Right(least)
      BY <2>4, <2>8, <3>4, <3>5
    <3> QED BY <2>2, <3>6
  <2> QED BY <2>4, <2>7, <2>8
<1>3. Len(list) \in 0..Len(list) /\ f[Len(list)] \in Seq(S)
  BY <1>1
<1>4. Right(Len(list))
  BY <1>2, <1>3
<1> QED BY <1>1, <1>3, <1>4

\* The transactions of an address in a chain, newest first, block by block
Stacked(list, a, f, m) ==
  f[0] = <<>> /\ \A n \in 1..m : f[n] = IF a \in Touches[list[n]] THEN <<list[n]>> \o f[n - 1] ELSE f[n - 1]

ConfirmedIn(list, a) ==
  LET f[n \in 0..Len(list)] == IF n = 0 THEN <<>>
                               ELSE IF a \in Touches[list[n]] THEN <<list[n]>> \o f[n - 1] ELSE f[n - 1]
  IN  f[Len(list)]

LEMMA StacksExist ==
  ASSUME NEW S, NEW list \in Seq(S), NEW a, NEW m \in 0..Len(list)
  PROVE  \E f \in [0..m -> Seq(S)] : Stacked(list, a, f, m)
<1> DEFINE Has(n) == \E f \in [0..n -> Seq(S)] : Stacked(list, a, f, n)
           Bad == {n \in 0..Len(list) : ~Has(n)}
<1>1. SUFFICES ASSUME Bad # {} PROVE FALSE
  OBVIOUS
<1> HIDE DEF Has
<1>2. PICK least \in Bad : \A n \in Bad : least <= n
  <2>1. Bad \subseteq Nat
    OBVIOUS
  <2> HIDE DEF Bad
  <2> QED BY <1>1, <2>1, LeastNatural
<1>3. Has(0)
  <2>1. <<>> \in Seq(S)
    OBVIOUS
  <2>2. [n \in 0..0 |-> <<>>] \in [0..0 -> Seq(S)] /\ Stacked(list, a, [n \in 0..0 |-> <<>>], 0)
    BY <2>1 DEF Stacked
  <2> QED BY <2>2 DEF Has
<1>4. least \in 1..Len(list)
  <2>1. least \in 0..Len(list) /\ least # 0
    BY <1>2, <1>3
  <2> QED BY <2>1
<1>5. Has(least - 1)
  <2>1. least - 1 \in 0..Len(list) /\ ~(least <= least - 1)
    BY <1>4
  <2> QED BY <1>2, <2>1
<1>6. PICK f \in [0..(least - 1) -> Seq(S)] : Stacked(list, a, f, least - 1)
  BY <1>5 DEF Has
<1>7. PICK last : last = IF a \in Touches[list[least]] THEN <<list[least]>> \o f[least - 1] ELSE f[least - 1]
  OBVIOUS
<1>8. last \in Seq(S)
  <2>1. list[least] \in S /\ f[least - 1] \in Seq(S)
    BY <1>4, <1>6
  <2>2. <<list[least]>> \o f[least - 1] \in Seq(S)
    BY <2>1
  <2> QED BY <1>7, <2>1, <2>2
<1> DEFINE g == [n \in 0..least |-> IF n = least THEN last ELSE f[n]]
<1>9. g \in [0..least -> Seq(S)]
  BY <1>4, <1>6, <1>8
<1>10. Stacked(list, a, g, least)
  <2>1. g[0] = <<>>
    BY <1>4, <1>6 DEF Stacked
  <2>2. ASSUME NEW n \in 1..least
        PROVE  g[n] = IF a \in Touches[list[n]] THEN <<list[n]>> \o g[n - 1] ELSE g[n - 1]
    <3>1. CASE n = least
      <4>1. g[n] = last /\ g[n - 1] = f[least - 1]
        BY <1>4, <3>1
      <4> HIDE DEF g
      <4> QED BY <1>7, <3>1, <4>1, Zenon
    <3>2. CASE n # least
      <4>1. n \in 1..(least - 1) /\ g[n] = f[n] /\ g[n - 1] = f[n - 1]
        BY <1>4, <3>2
      <4>2. f[n] = IF a \in Touches[list[n]] THEN <<list[n]>> \o f[n - 1] ELSE f[n - 1]
        BY <1>6, <4>1, Zenon DEF Stacked
      <4> HIDE DEF g
      <4> QED BY <4>1, <4>2, Zenon
    <3> QED BY <3>1, <3>2
  <2> HIDE DEF g
  <2> QED BY <2>1, <2>2, Zenon DEF Stacked
<1> QED BY <1>2, <1>9, <1>10 DEF Has

\* There is but one such stack.
LEMMA StacksAgree ==
  ASSUME NEW a, NEW m \in Nat, NEW list, NEW other, \A n \in 1..m : list[n] = other[n],
         NEW f, NEW g, Stacked(list, a, f, m), Stacked(other, a, g, m)
  PROVE  f[m] = g[m]
<1> DEFINE Bad == {n \in 0..m : f[n] # g[n]}
<1>1. Bad = {}
  <2>1. SUFFICES ASSUME Bad # {} PROVE FALSE
    OBVIOUS
  <2>2. PICK least \in Bad : \A n \in Bad : least <= n
    <3>1. Bad \subseteq Nat
      OBVIOUS
    <3> HIDE DEF Bad
    <3> QED BY <2>1, <3>1, LeastNatural
  <2>3. least # 0
    BY <2>2 DEF Stacked
  <2>4. least \in 1..m /\ least - 1 \in 0..m /\ ~(least <= least - 1)
    BY <2>2, <2>3
  <2>5. f[least - 1] = g[least - 1]
    BY <2>2, <2>4
  <2>6. f[least] = IF a \in Touches[list[least]] THEN <<list[least]>> \o f[least - 1] ELSE f[least - 1]
    BY <2>4, Zenon DEF Stacked
  <2>7. g[least] = IF a \in Touches[other[least]] THEN <<other[least]>> \o g[least - 1] ELSE g[least - 1]
    BY <2>4, Zenon DEF Stacked
  <2>8. list[least] = other[least]
    BY <2>4
  <2>9. f[least] = g[least]
    BY <2>5, <2>6, <2>7, <2>8, Zenon
  <2> QED BY <2>2, <2>9
<1> QED BY <1>1

LEMMA ConfirmedStack ==
  ASSUME NEW S, NEW list \in Seq(S), NEW a
  PROVE  \E f \in [0..Len(list) -> Seq(S)] : Stacked(list, a, f, Len(list)) /\ ConfirmedIn(list, a) = f[Len(list)]
<1> DEFINE G == CHOOSE g : g = [n \in 0..Len(list) |->
                  IF n = 0 THEN <<>> ELSE IF a \in Touches[list[n]] THEN <<list[n]>> \o g[n - 1] ELSE g[n - 1]]
<1>1. ConfirmedIn(list, a) = G[Len(list)]
  BY DEF ConfirmedIn
<1>2. PICK h \in [0..Len(list) -> Seq(S)] : Stacked(list, a, h, Len(list))
  <2>1. Len(list) \in 0..Len(list)
    OBVIOUS
  <2> QED BY <2>1, StacksExist
<1>3. h = [n \in 0..Len(list) |->
             IF n = 0 THEN <<>> ELSE IF a \in Touches[list[n]] THEN <<list[n]>> \o h[n - 1] ELSE h[n - 1]]
  <2> DEFINE again == [n \in 0..Len(list) |->
                 IF n = 0 THEN <<>> ELSE IF a \in Touches[list[n]] THEN <<list[n]>> \o h[n - 1] ELSE h[n - 1]]
  <2>1. DOMAIN h = 0..Len(list) /\ h = [n \in 0..Len(list) |-> h[n]]
    BY <1>2
  <2>2. ASSUME NEW n \in 0..Len(list) PROVE again[n] = h[n]
    <3>1. CASE n = 0
      BY <1>2, <3>1 DEF Stacked
    <3>2. CASE n # 0
      <4>1. n \in 1..Len(list)
        BY <3>2
      <4>2. h[n] = IF a \in Touches[list[n]] THEN <<list[n]>> \o h[n - 1] ELSE h[n - 1]
        BY <1>2, <4>1, Zenon DEF Stacked
      <4> QED BY <3>2, <4>2, Zenon
    <3> QED BY <3>1, <3>2
  <2>3. again = [n \in 0..Len(list) |-> again[n]]
    BY Zenon
  <2> HIDE DEF again
  <2>4. again = h
    BY <2>1, <2>2, <2>3
  <2> QED BY <2>4, Zenon DEF again
<1>4. G = [n \in 0..Len(list) |->
             IF n = 0 THEN <<>> ELSE IF a \in Touches[list[n]] THEN <<list[n]>> \o G[n - 1] ELSE G[n - 1]]
  BY <1>3, Zenon
<1> HIDE DEF G
<1>5. G[0] = <<>>
  <2>1. 0 \in 0..Len(list)
    OBVIOUS
  <2> QED BY <1>4, <2>1, Zenon
<1>6. ASSUME NEW n \in 1..Len(list)
      PROVE  G[n] = IF a \in Touches[list[n]] THEN <<list[n]>> \o G[n - 1] ELSE G[n - 1]
  <2>1. n # 0 /\ n \in 0..Len(list)
    OBVIOUS
  <2> QED BY <1>4, <2>1, Zenon
<1>7. Stacked(list, a, G, Len(list))
  BY <1>5, <1>6, Zenon DEF Stacked
<1>8. G[Len(list)] = h[Len(list)]
  <2>1. Len(list) \in Nat
    OBVIOUS
  <2> QED BY <1>2, <1>7, <2>1, StacksAgree
<1> QED BY <1>1, <1>2, <1>8

\* A block goes on top.
LEMMA ConfirmedGrows ==
  ASSUME NEW S, NEW list \in Seq(S), NEW t \in S, NEW a
  PROVE  /\ ConfirmedIn(list, a) \in Seq(S)
         /\ ConfirmedIn(Append(list, t), a) = IF a \in Touches[t] THEN <<t>> \o ConfirmedIn(list, a)
                                              ELSE ConfirmedIn(list, a)
<1>1. PICK more : more = Append(list, t)
  OBVIOUS
<1>2. /\ more \in Seq(S) /\ Len(more) = Len(list) + 1 /\ more[Len(list) + 1] = t
      /\ \A n \in 1..Len(list) : list[n] = more[n]
  BY <1>1
<1>3. PICK f \in [0..Len(list) -> Seq(S)] : Stacked(list, a, f, Len(list)) /\ ConfirmedIn(list, a) = f[Len(list)]
  BY ConfirmedStack
<1>4. PICK g \in [0..Len(more) -> Seq(S)] : Stacked(more, a, g, Len(more)) /\ ConfirmedIn(more, a) = g[Len(more)]
  BY <1>2, ConfirmedStack
<1>5. PICK m \in Nat : m = Len(list)
  OBVIOUS
<1>6. Stacked(more, a, g, m)
  <2>1. \A n \in 1..m : n \in 1..Len(more)
    BY <1>2, <1>5
  <2> QED BY <1>4, <2>1, Zenon DEF Stacked
<1>7. f[m] = g[m]
  <2>1. Stacked(list, a, f, m) /\ \A n \in 1..m : list[n] = more[n]
    BY <1>2, <1>3, <1>5, Zenon
  <2> QED BY ONLY <1>6, <2>1, m \in Nat, StacksAgree
<1>8. g[m + 1] = IF a \in Touches[t] THEN <<t>> \o g[m] ELSE g[m]
  <2>1. m + 1 \in 1..Len(more) /\ (m + 1) - 1 = m /\ more[m + 1] = t
    BY <1>2, <1>5
  <2> QED BY <1>4, <2>1, Zenon DEF Stacked
<1>9. ConfirmedIn(more, a) = g[m + 1] /\ ConfirmedIn(list, a) = g[m]
  BY <1>2, <1>3, <1>4, <1>5, <1>7
<1>10. f[Len(list)] \in Seq(S)
  <2>1. Len(list) \in 0..Len(list)
    OBVIOUS
  <2> QED BY <1>3, <2>1
<1> QED BY <1>1, <1>3, <1>8, <1>9, <1>10, Zenon

LEMMA NothingConfirmed == ASSUME NEW a PROVE ConfirmedIn(<<>>, a) = <<>>
<1> DEFINE none == <<>>
<1>1. none \in Seq({}) /\ Len(none) = 0
  OBVIOUS
<1> HIDE DEF none
<1>2. PICK f \in [0..Len(none) -> Seq({})] : Stacked(none, a, f, Len(none)) /\ ConfirmedIn(none, a) = f[Len(none)]
  BY <1>1, ConfirmedStack
<1> QED BY <1>1, <1>2, Zenon DEF Stacked, none

\* Confirmed transactions, the newer before the older
Ordered(c) ==
  /\ c \in Seq(Txs) /\ \A i \in DOMAIN c : c[i] \in ToSet(chain)
  /\ \A i, j \in DOMAIN c : i < j => Height(c[j]) < Height(c[i])

\* A list without a gap, that ends i before its last at the latest
PartFrom(list, c, i) == i \in 0..(Len(c) - Len(list)) /\ \A j \in 1..Len(list) : list[j] = c[i + j]

PartOf(list, c) == list \in Seq(Txs) /\ \E i \in Nat : PartFrom(list, c, i)

Given == [pages: 0..MaxPages, confirmed: Seq(Txs), unconfirmed: SUBSET (Txs \cup {"none"}),
          says: {"reading", "all", "cut", "failed"}]

Page == [confirmed: Seq(Txs), unconfirmed: SUBSET (Txs \cup {"none"})]

ChainInv ==
  /\ chain \in Seq(Txs) /\ IsInjective(chain)
  /\ pool \subseteq Txs \ ToSet(chain)
  /\ \A a \in Addresses : Ordered(Confirmed(a))

PagesInv ==
  /\ firstPages \in [Addresses -> Page]
  /\ \A a \in Addresses : PartOf(firstPages[a].confirmed, Confirmed(a))

\* What an address has given so far
GivenInv(of, c) ==
  /\ PartOf(of.confirmed, c)
  /\ of.pages = 0 => of.confirmed = <<>>
  /\ of.says = "reading" => of.pages < MaxPages /\ (of.pages > 0 => of.confirmed # <<>>)

ResultInv ==
  \A t \in history.result.list :
    /\ t \in ToSet(chain)
    /\ history.result.confirmations[t] \in 0..(Len(chain) - Height(t) + 1)

RequestInv ==
  /\ history \in [at: {"idle", "tip", "reading", "done"}, tip: {NoTip} \cup 1..Len(chain),
                  of: [Addresses -> Given], result: {history.result}]
  /\ \A a \in Addresses : GivenInv(history.of[a], Confirmed(a))
  /\ ResultInv

HistoryInv == ChainInv /\ PagesInv /\ RequestInv

\* A transaction has its height by its place in the chain.
LEMMA Heights ==
  ASSUME ChainInv
  PROVE  /\ \A i \in DOMAIN chain : Height(chain[i]) = i
         /\ \A t \in ToSet(chain) : Height(t) \in 1..Len(chain) /\ chain[Height(t)] = t
<1>1. ASSUME NEW i \in DOMAIN chain
      PROVE  Height(chain[i]) = i
  <2>1. \A j \in DOMAIN chain : chain[j] = chain[i] <=> j = i
    BY DEF ChainInv, IsInjective
  <2> QED BY <2>1 DEF Height
<1>2. \A t \in ToSet(chain) : \E i \in DOMAIN chain : chain[i] = t
  BY DEF ToSet
<1>3. DOMAIN chain = 1..Len(chain)
  BY DEF ChainInv
<1> QED BY <1>1, <1>2, <1>3

LEMMA ConfirmedHere ==
  /\ \A a : Confirmed(a) = ConfirmedIn(chain, a)
  /\ \A a : Confirmed(a)' = ConfirmedIn(chain', a)
BY DEF Confirmed, ConfirmedIn

\* Part of a list is so in elements as it is in SubSeq.
LEMMA PartIsSubSeq ==
  ASSUME NEW c \in Seq(Txs), NEW list \in Seq(Txs), NEW i, PartFrom(list, c, i)
  PROVE  i \in 0..(Len(c) - Len(list)) /\ list = SubSeq(c, i + 1, i + Len(list))
<1>1. i \in Nat /\ i + Len(list) <= Len(c) /\ i \in 0..(Len(c) - Len(list))
  BY DEF PartFrom
<1>2. \A k \in (i + 1)..(i + Len(list)) : c[k] \in Txs
  BY <1>1
<1>3. PICK sub : sub = SubSeq(c, i + 1, i + Len(list))
  OBVIOUS
<1>4. /\ sub \in Seq(Txs) /\ Len(sub) = Len(list)
      /\ \A j \in 1..Len(list) : sub[j] = c[i + j]
  <2>1. i + 1 \in Int /\ i + Len(list) \in Int
    BY <1>1
  <2>2. /\ sub \in Seq(Txs)
        /\ Len(sub) = IF i + 1 <= i + Len(list) THEN (i + Len(list)) - (i + 1) + 1 ELSE 0
        /\ \A j \in 1..((i + Len(list)) - (i + 1) + 1) : sub[j] = c[(i + 1) + j - 1]
    BY <1>2, <1>3, <2>1, SubSeqProperties
  <2>3. (i + Len(list)) - (i + 1) + 1 = Len(list) /\ \A j \in Int : (i + 1) + j - 1 = i + j
    BY <1>1
  <2> QED BY <1>1, <2>2, <2>3
<1>5. list = sub
  BY <1>4, SeqEqual DEF PartFrom
<1> QED BY <1>1, <1>3, <1>5

\* The first of a list, as many as a page has
LEMMA FirstOfIs ==
  ASSUME NEW s \in Seq(Txs)
  PROVE  /\ FirstOf(s) \in Seq(Txs) /\ Len(FirstOf(s)) <= Len(s)
         /\ \A j \in 1..Len(FirstOf(s)) : FirstOf(s)[j] = s[j]
<1>1. PICK n \in Nat : n = (IF Len(s) < PageSize THEN Len(s) ELSE PageSize) /\ n <= Len(s)
  BY HistoryAssumption
<1>2. PICK first : first = SubSeq(s, 1, n)
  OBVIOUS
<1>3. \A k \in 1..n : s[k] \in Txs
  BY <1>1
<1>4. /\ first \in Seq(Txs) /\ Len(first) = IF 1 <= n THEN n - 1 + 1 ELSE 0
      /\ \A j \in 1..(n - 1 + 1) : first[j] = s[1 + j - 1]
  BY <1>1, <1>2, <1>3, SubSeqProperties
<1>5. Len(first) = n /\ \A j \in 1..n : first[j] = s[j]
  BY <1>1, <1>4
<1>6. FirstOf(s) = first
  BY <1>1, <1>2 DEF FirstOf
<1> QED BY <1>1, <1>4, <1>5, <1>6

\* A page that continues a list keeps it without a gap.
LEMMA TurnedIs ==
  ASSUME ChainInv, NEW a \in Addresses, NEW of \in Given, of.says = "reading", GivenInv(of, Confirmed(a)),
         NEW i, PartFrom(of.confirmed, Confirmed(a), i),
         NEW page \in Seq(Txs), PartFrom(page, Confirmed(a), i + Len(of.confirmed)),
         NEW unconfirmed \in SUBSET (Txs \cup {"none"})
  PROVE  Turned(of, page, unconfirmed) \in Given /\ GivenInv(Turned(of, page, unconfirmed), Confirmed(a))
<1>1. PICK c, old : c = Confirmed(a) /\ old = of.confirmed
  OBVIOUS
<1>2. /\ c \in Seq(Txs) /\ old \in Seq(Txs) /\ i \in Nat /\ i + Len(old) + Len(page) <= Len(c)
      /\ \A j \in 1..Len(old) : old[j] = c[i + j]
      /\ \A j \in 1..Len(page) : page[j] = c[i + Len(old) + j]
      /\ \A k, l \in DOMAIN c : k < l => Height(c[l]) < Height(c[k])
      /\ \A k \in DOMAIN c : Height(c[k]) \in 1..Len(chain)
  <2>1. c \in Seq(Txs) /\ old \in Seq(Txs)
    BY <1>1 DEF ChainInv, Ordered, Given
  <2>2. i \in Nat /\ i + Len(old) <= Len(c) /\ \A j \in 1..Len(old) : old[j] = c[i + j]
    BY <1>1, <2>1 DEF PartFrom
  <2>3. i + Len(old) + Len(page) <= Len(c) /\ \A j \in 1..Len(page) : page[j] = c[i + Len(old) + j]
    BY <1>1, <2>1, <2>2 DEF PartFrom
  <2>4. /\ \A k, l \in DOMAIN c : k < l => Height(c[l]) < Height(c[k])
        /\ \A k \in DOMAIN c : c[k] \in ToSet(chain)
    BY <1>1 DEF ChainInv, Ordered
  <2>5. \A t \in ToSet(chain) : Height(t) \in 1..Len(chain)
    BY Heights
  <2> QED BY <2>1, <2>2, <2>3, <2>4, <2>5
<1>3. \A n \in 1..Len(page) : page[n] \in ToSet(page) \ ToSet(old) <=> n > 0
  <2> SUFFICES ASSUME NEW n \in 1..Len(page) PROVE page[n] \in ToSet(page) /\ page[n] \notin ToSet(old)
    OBVIOUS
  <2>1. page[n] \in ToSet(page)
    BY DEF ToSet
  <2>2. ASSUME NEW j \in 1..Len(old) PROVE old[j] # page[n]
    <3>1. PICK k, l : k = i + j /\ l = i + Len(old) + n
      OBVIOUS
    <3>2. k \in DOMAIN c /\ l \in DOMAIN c /\ k < l /\ old[j] = c[k] /\ page[n] = c[l]
      BY <1>2, <3>1
    <3>3. Height(c[l]) < Height(c[k]) /\ Height(c[k]) \in Int
      BY <1>2, <3>2
    <3> QED BY <3>2, <3>3
  <2>3. \A u \in ToSet(old) : \E j \in 1..Len(old) : old[j] = u
    BY <1>2 DEF ToSet
  <2> QED BY <2>1, <2>2, <2>3
<1>4. PICK fresh, new : fresh = ToSet(page) \ ToSet(old) /\ new = Kept(page, fresh)
  OBVIOUS
<1>5. new \in Seq(Txs) /\ Len(new) = Len(page) /\ \A j \in 1..Len(page) : new[j] = page[j]
  <2>1. 0 \in 0..Len(page)
    OBVIOUS
  <2>2. /\ new \in Seq(Txs) /\ Len(new) = Len(page) - 0
        /\ \A j \in 1..(Len(page) - 0) : new[j] = page[0 + j]
    <3>1. \A n \in 1..Len(page) : page[n] \in fresh <=> n > 0
      BY <1>3, <1>4, Zenon
    <3>2. /\ Kept(page, fresh) \in Seq(Txs) /\ Len(Kept(page, fresh)) = Len(page) - 0
          /\ \A j \in 1..(Len(page) - 0) : Kept(page, fresh)[j] = page[0 + j]
      BY <2>1, <3>1, KeptTail
    <3> QED BY <1>4, <3>2, Zenon
  <2> QED BY <2>2
<1>6. PICK all : all = old \o new
  OBVIOUS
<1>7. all \in Seq(Txs) /\ PartFrom(all, c, i)
  <2>1. /\ all \in Seq(Txs) /\ Len(all) = Len(old) + Len(new)
        /\ \A j \in 1..(Len(old) + Len(new)) : all[j] = IF j <= Len(old) THEN old[j] ELSE new[j - Len(old)]
    BY <1>2, <1>5, <1>6, ConcatProperties
  <2>4. Len(old) \in Nat /\ Len(new) \in Nat /\ Len(page) \in Nat /\ Len(new) = Len(page)
    BY <1>2, <1>5
  <2>5. ASSUME NEW j \in 1..Len(old) PROVE all[j] = old[j]
    <3>1. j <= Len(old) /\ j \in 1..(Len(old) + Len(new))
      BY <2>4
    <3> QED BY <2>1, <3>1, Zenon
  <2>6. ASSUME NEW n \in 1..Len(new) PROVE all[Len(old) + n] = new[n]
    <3>1. /\ ~(Len(old) + n <= Len(old)) /\ Len(old) + n \in 1..(Len(old) + Len(new))
          /\ (Len(old) + n) - Len(old) = n
      BY <2>4
    <3> QED BY <2>1, <3>1, Zenon
  <2>2. i \in 0..(Len(c) - Len(all))
    BY <1>2, <1>5, <2>1
  <2>3. ASSUME NEW j \in 1..Len(all) PROVE all[j] = c[i + j]
    <3>1. CASE j <= Len(old)
      <4>1. j \in 1..Len(old)
        BY <2>1, <2>4, <3>1
      <4> QED BY <1>2, <2>5, <4>1
    <3>2. CASE j > Len(old)
      <4>1. PICK n : n = j - Len(old)
        OBVIOUS
      <4>2. n \in 1..Len(page) /\ j = Len(old) + n /\ i + Len(old) + n = i + j
        BY <1>2, <2>1, <2>4, <3>2, <4>1
      <4>3. all[j] = new[n] /\ new[n] = page[n] /\ page[n] = c[i + Len(old) + n]
        BY <1>2, <1>5, <2>4, <2>6, <4>2
      <4> QED BY <4>2, <4>3
    <3> QED BY <1>2, <2>1, <3>1, <3>2
  <2> QED BY <2>1, <2>2, <2>3 DEF PartFrom
<1>8. PICK turned : turned = Turned(of, page, unconfirmed)
  OBVIOUS
<1>9. PICK says \in {"all", "reading"} :
        /\ turned = [pages |-> of.pages + 1, confirmed |-> all, unconfirmed |-> of.unconfirmed \cup unconfirmed, says |-> says]
        /\ says = "reading" => of.pages + 1 # MaxPages /\ all # <<>>
  <2>1. PICK says : says = IF \/ Len(new) + Cardinality(unconfirmed) = 0
                              \/ of.pages + 1 = MaxPages
                              \/ all = <<>>
                           THEN "all" ELSE "reading"
    OBVIOUS
  <2>2. turned = [pages |-> of.pages + 1, confirmed |-> all, unconfirmed |-> of.unconfirmed \cup unconfirmed, says |-> says]
    BY <1>1, <1>4, <1>6, <1>8, <2>1, Zenon DEF Turned
  <2>3. says \in {"all", "reading"} /\ (says = "reading" => of.pages + 1 # MaxPages /\ all # <<>>)
    BY <2>1
  <2> QED BY <2>2, <2>3
<1>10. of.pages \in Nat /\ of.pages < MaxPages /\ MaxPages \in Nat /\ of.unconfirmed \subseteq Txs \cup {"none"}
  BY HistoryAssumption DEF Given, GivenInv
<1>11. turned \in Given
  BY <1>7, <1>9, <1>10 DEF Given
<1>12. turned.pages = of.pages + 1 /\ turned.confirmed = all /\ turned.says = says
  BY <1>9
<1>13. GivenInv(turned, c)
  BY <1>2, <1>7, <1>9, <1>10, <1>12 DEF GivenInv, PartOf
<1> QED BY <1>1, <1>8, <1>11, <1>13

HeightIn(list, t) == CHOOSE i \in DOMAIN list : list[i] = t

LEMMA HeightHere ==
  /\ \A t : Height(t) = HeightIn(chain, t)
  /\ \A t : Height(t)' = HeightIn(chain', t)
BY DEF Height, HeightIn

LEMMA InjectiveHeights ==
  ASSUME NEW list, IsInjective(list), NEW i \in DOMAIN list
  PROVE  HeightIn(list, list[i]) = i
<1>1. \A j \in DOMAIN list : list[j] = list[i] <=> j = i
  BY DEF IsInjective
<1> QED BY <1>1 DEF HeightIn

Grown(more, list, t) == more = Append(list, t)

\* A block leaves the heights below it.
LEMMA HeightsGrow ==
  ASSUME NEW list \in Seq(Txs), IsInjective(list), NEW t \in Txs, t \notin ToSet(list),
         NEW more, Grown(more, list, t)
  PROVE  /\ more \in Seq(Txs) /\ Len(more) = Len(list) + 1 /\ IsInjective(more)
         /\ ToSet(more) = ToSet(list) \cup {t}
         /\ \A u \in ToSet(list) : HeightIn(more, u) = HeightIn(list, u)
         /\ HeightIn(more, t) = Len(list) + 1
<1>1. /\ more \in Seq(Txs) /\ Len(more) = Len(list) + 1
      /\ DOMAIN more = 1..(Len(list) + 1) /\ DOMAIN list = 1..Len(list)
      /\ more[Len(list) + 1] = t /\ \A i \in DOMAIN list : more[i] = list[i]
  BY DEF Grown
<1>2. \A i \in DOMAIN list : list[i] # t
  BY DEF ToSet
<1>3. ASSUME NEW i \in DOMAIN more, NEW j \in DOMAIN more, more[i] = more[j]
      PROVE  i = j
  <2>1. CASE i \in DOMAIN list /\ j \in DOMAIN list
    BY <1>1, <1>3, <2>1 DEF IsInjective
  <2>2. CASE i \notin DOMAIN list \/ j \notin DOMAIN list
    BY <1>1, <1>2, <1>3, <2>2
  <2> QED BY <2>1, <2>2
<1>4. IsInjective(more)
  BY <1>3 DEF IsInjective
<1>5. ToSet(more) = ToSet(list) \cup {t}
  BY <1>1 DEF ToSet
<1>6. ASSUME NEW u \in ToSet(list) PROVE HeightIn(more, u) = HeightIn(list, u)
  <2>1. PICK i \in DOMAIN list : list[i] = u
    BY DEF ToSet
  <2>2. i \in DOMAIN more /\ more[i] = u
    BY <1>1, <2>1
  <2> QED BY <1>4, <2>1, <2>2, InjectiveHeights
<1>7. HeightIn(more, t) = Len(list) + 1
  <2>1. Len(list) + 1 \in DOMAIN more /\ more[Len(list) + 1] = t
    BY <1>1
  <2> QED BY <1>4, <2>1, InjectiveHeights
<1> QED BY <1>1, <1>4, <1>5, <1>6, <1>7

LEMMA MinedHeights ==
  ASSUME ChainInv, NEW t \in Txs, t \notin ToSet(chain), chain' = Append(chain, t)
  PROVE  /\ chain' \in Seq(Txs) /\ Len(chain') = Len(chain) + 1 /\ IsInjective(chain')
         /\ ToSet(chain') = ToSet(chain) \cup {t}
         /\ \A u \in ToSet(chain) : Height(u)' = Height(u)
         /\ Height(t)' = Len(chain) + 1
<1>1. chain \in Seq(Txs) /\ IsInjective(chain)
  BY DEF ChainInv
<1>2. /\ chain' \in Seq(Txs) /\ Len(chain') = Len(chain) + 1 /\ IsInjective(chain')
      /\ ToSet(chain') = ToSet(chain) \cup {t}
      /\ \A u \in ToSet(chain) : HeightIn(chain', u) = HeightIn(chain, u)
      /\ HeightIn(chain', t) = Len(chain) + 1
  <2>1. Grown(chain', chain, t)
    BY DEF Grown
  <2> QED BY <1>1, <2>1, HeightsGrow
<1> QED BY <1>2, HeightHere

\* A list without a gap is one still when a block is on top.
LEMMA PartStays ==
  ASSUME NEW list, NEW c \in Seq(Txs), PartOf(list, c), NEW t \in Txs, NEW d, d = c \/ d = <<t>> \o c
  PROVE  PartOf(list, d)
<1>1. CASE d = c
  BY <1>1
<1>2. CASE d = <<t>> \o c
  <2>1. d \in Seq(Txs) /\ Len(d) = Len(c) + 1 /\ \A j \in 1..Len(c) : d[j + 1] = c[j]
    BY <1>2
  <2>2. list \in Seq(Txs)
    BY DEF PartOf
  <2>3. PICK i \in Nat : PartFrom(list, c, i)
    BY DEF PartOf
  <2>4. i + Len(list) <= Len(c) /\ \A j \in 1..Len(list) : list[j] = c[i + j]
    BY <2>2, <2>3 DEF PartFrom
  <2>5. ASSUME NEW j \in 1..Len(list) PROVE list[j] = d[(i + 1) + j]
    <3>1. i + j \in 1..Len(c) /\ (i + 1) + j = (i + j) + 1
      BY <2>2, <2>4
    <3> QED BY <2>1, <2>4, <3>1
  <2>6. i + 1 \in 0..(Len(d) - Len(list)) /\ i + 1 \in Nat
    BY <2>1, <2>2, <2>4
  <2> QED BY <2>2, <2>5, <2>6 DEF PartOf, PartFrom
<1> QED BY <1>1, <1>2

LEMMA OrderedStays ==
  ASSUME ChainInv, NEW t \in Txs, t \notin ToSet(chain), chain' = Append(chain, t),
         NEW a \in Addresses
  PROVE  Ordered(Confirmed(a))'
<1>1. PICK c, d : c = Confirmed(a) /\ d = Confirmed(a)'
  OBVIOUS
<1>2. /\ c \in Seq(Txs) /\ \A i \in DOMAIN c : c[i] \in ToSet(chain)
      /\ \A i, j \in DOMAIN c : i < j => Height(c[j]) < Height(c[i])
  BY <1>1 DEF ChainInv, Ordered
<1>3. d = c \/ d = <<t>> \o c
  <2>1. chain \in Seq(Txs)
    BY DEF ChainInv
  <2>2. ConfirmedIn(Append(chain, t), a) = IF a \in Touches[t] THEN <<t>> \o ConfirmedIn(chain, a) ELSE ConfirmedIn(chain, a)
    BY <2>1, ConfirmedGrows
  <2> QED BY <1>1, <2>2, ConfirmedHere
<1>4. \A u \in ToSet(chain) : Height(u)' = Height(u) /\ Height(u) \in Nat /\ Height(u) <= Len(chain)
  BY Heights, MinedHeights DEF ChainInv
<1>5. ToSet(chain') = ToSet(chain) \cup {t} /\ Height(t)' = Len(chain) + 1 /\ Len(chain) \in Nat
  BY MinedHeights DEF ChainInv
<1>6. CASE d = c
  <2>1. \A i, j \in DOMAIN c : i < j => Height(c[j])' < Height(c[i])'
    BY <1>2, <1>4
  <2> QED BY <1>1, <1>2, <1>5, <1>6, <2>1 DEF Ordered
<1>7. CASE d = <<t>> \o c
  <2>1. /\ d \in Seq(Txs) /\ DOMAIN d = 1..(Len(c) + 1) /\ d[1] = t
        /\ \A j \in DOMAIN d : j # 1 => j - 1 \in DOMAIN c /\ d[j] = c[j - 1]
    BY <1>2, <1>7
  <2>2. \A j \in DOMAIN d : d[j] \in ToSet(chain')
    BY <1>2, <1>5, <2>1
  <2>3. ASSUME NEW i \in DOMAIN d, NEW j \in DOMAIN d, i < j
        PROVE  Height(d[j])' < Height(d[i])'
    <3>1. PICK u : u = d[j] /\ u = c[j - 1] /\ j - 1 \in DOMAIN c
      BY <2>1, <2>3
    <3>2. u \in ToSet(chain) /\ Height(u)' = Height(u) /\ Height(u) \in Nat /\ Height(u) <= Len(chain)
      BY <1>2, <1>4, <3>1
    <3>3. CASE i = 1
      <4>1. Height(u)' < Height(t)'
        BY <1>5, <3>2
      <4> QED BY <2>1, <3>1, <3>3, <4>1
    <3>4. CASE i # 1
      <4>1. PICK v : v = d[i] /\ v = c[i - 1] /\ i - 1 \in DOMAIN c
        BY <2>1, <2>3, <3>4
      <4>2. i - 1 < j - 1
        BY <2>1, <2>3
      <4>3. Height(u) < Height(v)
        BY <1>2, <3>1, <4>1, <4>2
      <4>4. v \in ToSet(chain)
        BY <1>2, <4>1
      <4>5. Height(u)' < Height(v)'
        BY <1>4, <3>2, <4>3, <4>4
      <4> QED BY <3>1, <4>1, <4>5
    <3> QED BY <3>3, <3>4
  <2> QED BY <1>1, <2>1, <2>2, <2>3 DEF Ordered
<1> QED BY <1>3, <1>6, <1>7

LEMMA MineKeeps ==
  ASSUME HistoryInv, NEW t \in Txs, Mine(t)
  PROVE  HistoryInv'
<1>1. t \in Txs /\ t \notin ToSet(chain) /\ chain' = Append(chain, t) /\ ChainInv /\ chain \in Seq(Txs)
      /\ UNCHANGED <<firstPages, history>>
  BY DEF Mine, HistoryInv, ChainInv
<1>2. \A a \in Addresses : Ordered(Confirmed(a))'
  BY <1>1, OrderedStays
<1>3. ChainInv'
  <2>1. pool' \subseteq Txs \ ToSet(chain')
    BY <1>1, MinedHeights DEF Mine, ChainInv
  <2> QED BY <1>1, <1>2, <2>1, MinedHeights DEF ChainInv
<1>4. ASSUME NEW a \in Addresses
      PROVE  \A list : PartOf(list, Confirmed(a)) => PartOf(list, Confirmed(a)')
  <2>1. Confirmed(a) \in Seq(Txs)
    BY <1>1 DEF ChainInv, Ordered
  <2>2. Confirmed(a)' = Confirmed(a) \/ Confirmed(a)' = <<t>> \o Confirmed(a)
    <3>1. ConfirmedIn(Append(chain, t), a) = IF a \in Touches[t] THEN <<t>> \o ConfirmedIn(chain, a) ELSE ConfirmedIn(chain, a)
      BY <1>1, ConfirmedGrows
    <3> QED BY <1>1, <3>1, ConfirmedHere
  <2> QED BY <2>1, <2>2, PartStays
<1>5. PagesInv'
  <2>1. \A a \in Addresses : PartOf(firstPages[a].confirmed, Confirmed(a)')
    BY <1>4 DEF HistoryInv, PagesInv
  <2>2. firstPages \in [Addresses -> Page]
    BY DEF HistoryInv, PagesInv
  <2>3. \A a \in Addresses : PartOf(firstPages'[a].confirmed, Confirmed(a)')
    BY <1>1, <2>1
  <2>4. firstPages' \in [Addresses -> Page]
    BY <1>1, <2>2
  <2> QED BY <2>3, <2>4 DEF PagesInv, PartOf, PartFrom, Page
<1>6. \A a \in Addresses : GivenInv(history'.of[a], Confirmed(a)')
  BY <1>1, <1>4 DEF HistoryInv, RequestInv, GivenInv
<1>7. ResultInv'
  <2> SUFFICES ASSUME NEW u \in history.result.list
               PROVE  u \in ToSet(chain') /\ history.result.confirmations[u] \in 0..(Len(chain') - Height(u)' + 1)
    BY <1>1 DEF ResultInv
  <2>1. u \in ToSet(chain) /\ history.result.confirmations[u] \in 0..(Len(chain) - Height(u) + 1)
    BY DEF HistoryInv, RequestInv, ResultInv
  <2>2. Len(chain') = Len(chain) + 1 /\ Height(u)' = Height(u) /\ ToSet(chain) \subseteq ToSet(chain')
    BY <1>1, <2>1, MinedHeights
  <2>3. Height(u) \in Nat /\ Len(chain) \in Nat
    BY <1>1, <2>1, Heights
  <2> QED BY <2>1, <2>2, <2>3
<1>8. history' \in [at: {"idle", "tip", "reading", "done"}, tip: {NoTip} \cup 1..Len(chain'),
                    of: [Addresses -> Given], result: {history'.result}]
  <2>1. 1..Len(chain) \subseteq 1..Len(chain')
    BY <1>1, MinedHeights
  <2> QED BY <1>1, <2>1 DEF HistoryInv, RequestInv
<1>9. RequestInv'
  BY <1>6, <1>7, <1>8 DEF RequestInv, GivenInv, PartOf, PartFrom
<1> QED BY <1>3, <1>5, <1>9 DEF HistoryInv

LEMMA SameChain ==
  ASSUME UNCHANGED chain
  PROVE  /\ \A a : Confirmed(a)' = Confirmed(a)
         /\ \A t : Height(t)' = Height(t)
BY ConfirmedHere, HeightHere

LEMMA ChainStays ==
  ASSUME ChainInv, UNCHANGED chain, pool' \subseteq Txs \ ToSet(chain)
  PROVE  ChainInv'
<1>1. ASSUME NEW a \in Addresses PROVE Ordered(Confirmed(a))'
  <2>1. PICK c : c = Confirmed(a) /\ c = Confirmed(a)'
    BY SameChain
  <2>2. /\ c \in Seq(Txs) /\ \A i \in DOMAIN c : c[i] \in ToSet(chain)
        /\ \A i, j \in DOMAIN c : i < j => Height(c[j]) < Height(c[i])
    BY <2>1 DEF ChainInv, Ordered
  <2>3. \A i, j \in DOMAIN c : i < j => Height(c[j])' < Height(c[i])'
    BY <2>2, SameChain
  <2> QED BY <2>1, <2>2, <2>3 DEF Ordered
<1> QED BY <1>1 DEF ChainInv

LEMMA PagesStay ==
  ASSUME PagesInv, UNCHANGED <<chain, firstPages>>
  PROVE  PagesInv'
<1>1. firstPages' \in [Addresses -> Page] /\ \A a \in Addresses : PartOf(firstPages'[a].confirmed, Confirmed(a)')
  BY SameChain DEF PagesInv
<1> QED BY <1>1 DEF PagesInv, PartOf, PartFrom, Page

\* The result stays true while the chain and the result do.
LEMMA ResultStays ==
  ASSUME ResultInv, UNCHANGED chain, history'.result = history.result
  PROVE  ResultInv'
BY SameChain DEF ResultInv

LEMMA RequestStays ==
  ASSUME RequestInv, UNCHANGED <<chain, history>>
  PROVE  RequestInv'
<1>1. \A a \in Addresses : GivenInv(history'.of[a], Confirmed(a)')
  BY SameChain DEF RequestInv
<1>2. ResultInv'
  BY ResultStays DEF RequestInv
<1>3. history' \in [at: {"idle", "tip", "reading", "done"}, tip: {NoTip} \cup 1..Len(chain'),
                    of: [Addresses -> Given], result: {history'.result}]
  BY DEF RequestInv
<1> QED BY <1>1, <1>2, <1>3 DEF RequestInv, GivenInv, PartOf, PartFrom

LEMMA EnterKeeps ==
  ASSUME HistoryInv, NEW t \in Txs, Enter(t)
  PROVE  HistoryInv'
<1>1. pool' \subseteq Txs \ ToSet(chain)
  BY DEF Enter, HistoryInv, ChainInv
<1> QED BY <1>1, ChainStays, PagesStay, RequestStays DEF Enter, HistoryInv

LEMMA NothingIsPart ==
  ASSUME NEW c \in Seq(Txs)
  PROVE  PartOf(<<>>, c)
<1>1. PartFrom(<<>>, c, 0)
  BY DEF PartFrom
<1> QED BY <1>1 DEF PartOf

LEMMA StartHistoryKeeps ==
  ASSUME HistoryInv, StartHistory
  PROVE  HistoryInv'
<1>1. /\ history' = [at |-> "tip", tip |-> NoTip, of |-> [a \in Addresses |-> Unread], result |-> NoResult]
      /\ UNCHANGED chain
  BY DEF StartHistory, Idle0
<1>2. Unread \in Given
  BY HistoryAssumption DEF Unread, Given
<1>3. history' \in [at: {"idle", "tip", "reading", "done"}, tip: {NoTip} \cup 1..Len(chain'),
                    of: [Addresses -> Given], result: {history'.result}]
  BY <1>1, <1>2
<1>4. ASSUME NEW a \in Addresses PROVE GivenInv(history'.of[a], Confirmed(a)')
  <2>1. Confirmed(a)' \in Seq(Txs)
    BY <1>1, SameChain DEF HistoryInv, ChainInv, Ordered
  <2>2. GivenInv(Unread, Confirmed(a)')
    BY <2>1, NothingIsPart, HistoryAssumption DEF GivenInv, Unread
  <2> QED BY <1>1, <2>2
<1>5. ResultInv'
  BY <1>1 DEF ResultInv, NoResult
<1>6. RequestInv'
  BY <1>3, <1>4, <1>5 DEF RequestInv, GivenInv, PartOf, PartFrom
<1>7. pool' \subseteq Txs \ ToSet(chain)
  BY DEF HistoryInv, ChainInv, StartHistory
<1> QED BY <1>6, <1>7, ChainStays, PagesStay DEF StartHistory, HistoryInv

LEMMA ReadTipKeeps ==
  ASSUME HistoryInv, ReadTip
  PROVE  HistoryInv'
<1>1. PICK tip \in {NoTip} \cup ({Len(chain)} \ {0}) : history' = [history EXCEPT !.at = "reading", !.tip = tip]
  BY DEF ReadTip
<1>2. tip \in {NoTip} \cup 1..Len(chain)
  BY DEF HistoryInv, ChainInv
<1>3. UNCHANGED chain
  BY DEF ReadTip
<1>4. /\ history' \in [at: {"idle", "tip", "reading", "done"}, tip: {NoTip} \cup 1..Len(chain'),
                       of: [Addresses -> Given], result: {history'.result}]
      /\ history'.of = history.of /\ history'.result = history.result
  BY <1>1, <1>2, <1>3 DEF HistoryInv, RequestInv
<1>5. \A a \in Addresses : GivenInv(history'.of[a], Confirmed(a)')
  BY <1>3, <1>4, SameChain DEF HistoryInv, RequestInv
<1>6. ResultInv'
  BY <1>3, <1>4, ResultStays DEF HistoryInv, RequestInv
<1>7. RequestInv'
  BY <1>4, <1>5, <1>6 DEF RequestInv, GivenInv, PartOf, PartFrom
<1>8. pool' \subseteq Txs \ ToSet(chain)
  BY DEF HistoryInv, ChainInv, ReadTip
<1> QED BY <1>7, <1>8, ChainStays, PagesStay DEF ReadTip, HistoryInv

\* A step that changes what one address has given
LEMMA GivenKeeps ==
  ASSUME RequestInv, NEW a \in Addresses, NEW given \in Given, GivenInv(given, Confirmed(a)),
         history' = [history EXCEPT !.of[a] = given], UNCHANGED chain
  PROVE  RequestInv'
<1>1. /\ history' \in [at: {"idle", "tip", "reading", "done"}, tip: {NoTip} \cup 1..Len(chain'),
                       of: [Addresses -> Given], result: {history'.result}]
      /\ history'.of = [history.of EXCEPT ![a] = given] /\ history'.result = history.result
  BY DEF RequestInv
<1>2. ASSUME NEW b \in Addresses PROVE GivenInv(history'.of[b], Confirmed(b)')
  <2>1. history'.of[b] = IF b = a THEN given ELSE history.of[b]
    BY <1>1 DEF RequestInv
  <2>2. GivenInv(history'.of[b], Confirmed(b))
    BY <2>1, Zenon DEF RequestInv
  <2> QED BY <2>2, SameChain
<1>3. ResultInv'
  BY <1>1, ResultStays DEF RequestInv
<1> QED BY <1>1, <1>2, <1>3 DEF RequestInv, GivenInv, PartOf, PartFrom

LEMMA ReadFirstPageKeeps ==
  ASSUME HistoryInv, NEW a \in Addresses, ReadFirstPage(a)
  PROVE  HistoryInv'
<1>1. PICK page \in {FirstPage(a)} \cup ({firstPages[a]} \ {NoPage}) :
        /\ firstPages' = [firstPages EXCEPT ![a] = page]
        /\ history' = [history EXCEPT !.of[a] = Turned(@, page.confirmed, page.unconfirmed)]
  BY DEF ReadFirstPage
<1>2. PICK c, of : c = Confirmed(a) /\ of = history.of[a]
  OBVIOUS
<1>3. c \in Seq(Txs) /\ ChainInv /\ UNCHANGED <<chain, pool>>
  BY <1>2 DEF HistoryInv, ChainInv, Ordered, ReadFirstPage
<1>4. of \in Given /\ GivenInv(of, c) /\ of.says = "reading" /\ of.pages = 0 /\ of.confirmed = <<>>
  BY <1>2 DEF HistoryInv, RequestInv, ReadFirstPage, Reading, GivenInv
<1>5. page \in Page /\ PartOf(page.confirmed, c)
  <2>1. CASE page = firstPages[a]
    BY <1>2, <2>1 DEF HistoryInv, PagesInv
  <2>2. CASE page = FirstPage(a)
    <3>1. PICK first : first = FirstOf(c)
      OBVIOUS
    <3>2. first \in Seq(Txs) /\ Len(first) <= Len(c) /\ \A j \in 1..Len(first) : first[j] = c[j]
      BY <1>3, <3>1, FirstOfIs
    <3>3. PartFrom(first, c, 0)
      BY <1>3, <3>2 DEF PartFrom
    <3>4. page = [confirmed |-> first, unconfirmed |-> {t \in pool : a \in Touches[t]}]
      BY <1>2, <2>2, <3>1 DEF FirstPage
    <3>5. pool \subseteq Txs
      BY <1>3 DEF ChainInv
    <3> QED BY <3>2, <3>3, <3>4, <3>5 DEF Page, PartOf
  <2> QED BY <2>1, <2>2
<1>6. PICK i \in Nat : PartFrom(page.confirmed, c, i)
  BY <1>5 DEF PartOf
<1>7. page.confirmed \in Seq(Txs) /\ page.unconfirmed \in SUBSET (Txs \cup {"none"})
  BY <1>5 DEF Page
<1>8. PartFrom(of.confirmed, c, i) /\ i + Len(of.confirmed) = i
  BY <1>3, <1>4, <1>6, <1>7 DEF PartFrom
<1>9. PICK given : given = Turned(of, page.confirmed, page.unconfirmed)
  OBVIOUS
<1>10. given \in Given /\ GivenInv(given, c)
  BY <1>2, <1>3, <1>4, <1>6, <1>7, <1>8, <1>9, TurnedIs
<1>11. RequestInv'
  <2>1. history' = [history EXCEPT !.of[a] = given]
    BY <1>1, <1>2, <1>9
  <2> QED BY <1>2, <1>3, <1>10, <2>1, GivenKeeps DEF HistoryInv
<1>12. PagesInv'
  <2>1. firstPages' \in [Addresses -> Page] /\ \A b \in Addresses : firstPages'[b] = IF b = a THEN page ELSE firstPages[b]
    BY <1>1, <1>5 DEF HistoryInv, PagesInv
  <2>2. \A b \in Addresses : PartOf(firstPages'[b].confirmed, Confirmed(b))
    BY <1>2, <1>5, <2>1, Zenon DEF HistoryInv, PagesInv
  <2>3. \A b \in Addresses : PartOf(firstPages'[b].confirmed, Confirmed(b)')
    BY <1>3, <2>2, SameChain
  <2> QED BY <2>1, <2>3 DEF PagesInv, PartOf, PartFrom, Page
<1>13. ChainInv'
  BY <1>3, ChainStays DEF ChainInv
<1> QED BY <1>11, <1>12, <1>13 DEF HistoryInv

LEMMA ReadNextPageKeeps ==
  ASSUME HistoryInv, NEW a \in Addresses, ReadNextPage(a)
  PROVE  HistoryInv'
<1>1. /\ history' = [history EXCEPT !.of[a] = Turned(@, PageAfter(a, AfterLast(a)), {})]
      /\ UNCHANGED <<chain, pool, firstPages>>
  BY DEF ReadNextPage
<1>2. PICK c, of, list : c = Confirmed(a) /\ of = history.of[a] /\ list = of.confirmed
  OBVIOUS
<1>3. /\ c \in Seq(Txs) /\ \A j \in DOMAIN c : c[j] \in ToSet(chain)
      /\ \A j, l \in DOMAIN c : j < l => Height(c[l]) < Height(c[j])
  BY <1>2 DEF HistoryInv, ChainInv, Ordered
<1>4. of \in Given /\ GivenInv(of, c) /\ of.says = "reading" /\ list # <<>> /\ list \in Seq(Txs)
  BY <1>2 DEF HistoryInv, RequestInv, ReadNextPage, Reading, GivenInv, Given
<1>5. PICK i \in Nat : PartFrom(list, c, i)
  BY <1>2, <1>4 DEF GivenInv, PartOf
<1>6. PICK k : k = i + Len(list)
  OBVIOUS
<1>7. PICK last : last = AfterLast(a)
  OBVIOUS
<1>8. k \in 1..Len(c) /\ last = c[k]
  <2>1. Len(list) \in Nat \ {0}
    BY <1>4
  <2>2. last = list[Len(list)]
    BY <1>2, <1>7 DEF AfterLast, Last
  <2> QED BY <1>3, <1>5, <1>6, <2>1, <2>2 DEF PartFrom
<1>9. PICK these : these = {u \in ToSet(c) : Height(u) < Height(last)}
  OBVIOUS
<1>10. ASSUME NEW n \in 1..Len(c) PROVE c[n] \in these <=> n > k
  <2>1. \A m \in 1..Len(c) : Height(c[m]) \in Int
    <3>1. \A t \in ToSet(chain) : Height(t) \in 1..Len(chain)
      BY Heights DEF HistoryInv
    <3> QED BY <1>3, <3>1
  <2>2. c[n] \in ToSet(c)
    BY <1>3 DEF ToSet
  <2>3. c[n] \in these <=> Height(c[n]) < Height(c[k])
    BY <1>8, <1>9, <2>2
  <2>4. n > k => Height(c[n]) < Height(c[k])
    BY <1>3, <1>8
  <2>5. n < k => Height(c[k]) < Height(c[n])
    BY <1>3, <1>8
  <2> QED BY <1>8, <2>1, <2>3, <2>4, <2>5
<1>11. PICK kept : kept = Kept(c, these)
  OBVIOUS
<1>12. /\ kept \in Seq(Txs) /\ Len(kept) = Len(c) - k
       /\ \A j \in 1..(Len(c) - k) : kept[j] = c[k + j]
  <2>1. k \in 0..Len(c)
    BY <1>8
  <2> QED BY <1>3, <1>10, <1>11, <2>1, KeptTail
<1>13. PICK page : page = PageAfter(a, last)
  OBVIOUS
<1>14. page = FirstOf(kept)
  BY <1>2, <1>9, <1>11, <1>13 DEF PageAfter
<1>15. page \in Seq(Txs) /\ Len(page) <= Len(kept) /\ \A j \in 1..Len(page) : page[j] = kept[j]
  BY <1>12, <1>14, FirstOfIs
<1>16. PartFrom(page, c, k)
  BY <1>3, <1>8, <1>12, <1>15 DEF PartFrom
<1>17. PICK given : given = Turned(of, page, {})
  OBVIOUS
<1>18. given \in Given /\ GivenInv(given, c)
  <2>1. ChainInv /\ {} \in SUBSET (Txs \cup {"none"})
    BY DEF HistoryInv
  <2> QED BY <1>2, <1>4, <1>5, <1>6, <1>15, <1>16, <1>17, <2>1, TurnedIs
<1>19. RequestInv'
  <2>1. history' = [history EXCEPT !.of[a] = given]
    BY <1>1, <1>2, <1>7, <1>13, <1>17
  <2> QED BY <1>1, <1>2, <1>18, <2>1, GivenKeeps DEF HistoryInv
<1>20. ChainInv'
  BY <1>1, ChainStays DEF HistoryInv, ChainInv
<1> QED BY <1>1, <1>19, <1>20, PagesStay DEF HistoryInv

LEMMA PageFailsKeeps ==
  ASSUME HistoryInv, NEW a \in Addresses, PageFails(a)
  PROVE  HistoryInv'
<1>1. PICK says \in {"failed", "cut", "all"} : history' = [history EXCEPT !.of[a].says = says]
  BY DEF PageFails
<1>2. UNCHANGED <<chain, pool, firstPages>>
  BY DEF PageFails
<1>3. PICK of, given : of = history.of[a] /\ given = [of EXCEPT !.says = says]
  OBVIOUS
<1>4. of \in Given /\ GivenInv(of, Confirmed(a))
  BY <1>3 DEF HistoryInv, RequestInv
<1>5. given \in Given /\ given.confirmed = of.confirmed /\ given.pages = of.pages /\ given.says = says
  BY <1>3, <1>4 DEF Given
<1>6. GivenInv(given, Confirmed(a))
  BY <1>4, <1>5 DEF GivenInv
<1>7. RequestInv'
  <2>1. history' = [history EXCEPT !.of[a] = given]
    BY <1>1, <1>3
  <2> QED BY <1>2, <1>5, <1>6, <2>1, GivenKeeps DEF HistoryInv
<1>8. ChainInv'
  BY <1>2, ChainStays DEF HistoryInv, ChainInv
<1> QED BY <1>2, <1>7, <1>8, PagesStay DEF HistoryInv

LEMMA PageExpiresKeeps ==
  ASSUME HistoryInv, NEW a \in Addresses, PageExpires(a)
  PROVE  HistoryInv'
<1>1. firstPages' = [firstPages EXCEPT ![a] = NoPage] /\ UNCHANGED <<chain, pool, history>>
  BY DEF PageExpires
<1>2. NoPage \in Page /\ NoPage.confirmed = <<>>
  BY DEF NoPage, Page
<1>3. PagesInv'
  <2>1. firstPages' \in [Addresses -> Page] /\ \A b \in Addresses : firstPages'[b] = IF b = a THEN NoPage ELSE firstPages[b]
    BY <1>1, <1>2 DEF HistoryInv, PagesInv
  <2>2. PartOf(NoPage.confirmed, Confirmed(a))
    BY <1>2, NothingIsPart DEF HistoryInv, ChainInv, Ordered
  <2>3. \A b \in Addresses : PartOf(firstPages'[b].confirmed, Confirmed(b))
    BY <2>1, <2>2, Zenon DEF HistoryInv, PagesInv
  <2>4. \A b \in Addresses : PartOf(firstPages'[b].confirmed, Confirmed(b)')
    BY <1>1, <2>3, SameChain
  <2> QED BY <2>1, <2>4 DEF PagesInv, PartOf, PartFrom, Page
<1>4. ChainInv'
  BY <1>1, ChainStays DEF HistoryInv, ChainInv
<1> QED BY <1>1, <1>3, <1>4, RequestStays DEF HistoryInv

LEMMA FinishKeeps ==
  ASSUME HistoryInv, Finish
  PROVE  HistoryInv'
<1> DEFINE ok == {a \in Addresses : history.of[a].says # "failed"}
           seen == UNION {ToSet(history.of[a].confirmed) : a \in ok}
<1>1. PICK list, status, pending :
        /\ list \subseteq seen \ pending
        /\ history' = [history EXCEPT !.at = "done",
             !.result = [list |-> list, status |-> status,
                         confirmations |-> [t \in list |-> Confirmations(history.tip, Height(t))]]]
  BY DEF Finish, Newest
<1>2. UNCHANGED <<chain, pool, firstPages>>
  BY DEF Finish
<1>3. seen \subseteq ToSet(chain)
  <2> SUFFICES ASSUME NEW a \in Addresses, NEW t \in ToSet(history.of[a].confirmed) PROVE t \in ToSet(chain)
    OBVIOUS
  <2>1. PICK given, c : given = history.of[a].confirmed /\ c = Confirmed(a)
    OBVIOUS
  <2>2. given \in Seq(Txs) /\ \E i \in Nat : PartFrom(given, c, i)
    BY <2>1 DEF HistoryInv, RequestInv, GivenInv, PartOf
  <2>3. c \in Seq(Txs) /\ \A j \in DOMAIN c : c[j] \in ToSet(chain)
    BY <2>1 DEF HistoryInv, ChainInv, Ordered
  <2>4. PICK i \in Nat : i + Len(given) <= Len(c) /\ \A j \in 1..Len(given) : given[j] = c[i + j]
    <3>1. PICK i \in Nat : PartFrom(given, c, i)
      BY <2>2
    <3>2. i + Len(given) <= Len(c) /\ \A j \in 1..Len(given) : given[j] = c[i + j]
      BY <2>2, <2>3, <3>1 DEF PartFrom
    <3> QED BY <3>2
  <2>5. PICK j \in 1..Len(given) : given[j] = t
    BY <2>1, <2>2 DEF ToSet
  <2>6. i + j \in DOMAIN c
    BY <2>2, <2>3, <2>4
  <2> QED BY <2>3, <2>4, <2>5, <2>6
<1>4. history' = [at |-> "done", tip |-> history.tip, of |-> history.of,
                  result |-> [list |-> list, status |-> status,
                              confirmations |-> [t \in list |-> Confirmations(history.tip, Height(t))]]]
  BY <1>1 DEF HistoryInv, RequestInv
<1>5. history.tip \in {NoTip} \cup 1..Len(chain) /\ history.of \in [Addresses -> Given]
  BY DEF HistoryInv, RequestInv
<1>6. ASSUME NEW t \in list
      PROVE  t \in ToSet(chain) /\ Confirmations(history.tip, Height(t)) \in 0..(Len(chain) - Height(t) + 1)
  <2>1. t \in ToSet(chain)
    BY <1>1, <1>3
  <2>2. Height(t) \in 1..Len(chain) /\ Len(chain) \in Nat
    BY <2>1, Heights DEF HistoryInv, ChainInv
  <2> QED BY <1>5, <2>1, <2>2 DEF Confirmations, NoTip
<1>7. ResultInv'
  <2>1. history'.result.list = list
    BY <1>4
  <2>2. \A t \in list : history'.result.confirmations[t] = Confirmations(history.tip, Height(t))
    BY <1>4
  <2>3. \A t \in list : /\ t \in ToSet(chain')
                        /\ history'.result.confirmations[t] \in 0..(Len(chain') - Height(t)' + 1)
    BY <1>2, <1>6, <2>2, SameChain
  <2> QED BY <2>1, <2>3 DEF ResultInv
<1>8. RequestInv'
  <2>1. /\ history' \in [at: {"idle", "tip", "reading", "done"}, tip: {NoTip} \cup 1..Len(chain'),
                         of: [Addresses -> Given], result: {history'.result}]
        /\ history'.of = history.of
    BY <1>2, <1>4, <1>5
  <2>2. \A a \in Addresses : GivenInv(history'.of[a], Confirmed(a)')
    BY <1>2, <2>1, SameChain DEF HistoryInv, RequestInv
  <2> QED BY <1>7, <2>1, <2>2 DEF RequestInv, GivenInv, PartOf, PartFrom
<1>9. ChainInv'
  BY <1>2, ChainStays DEF HistoryInv, ChainInv
<1> QED BY <1>2, <1>8, <1>9, PagesStay DEF HistoryInv

LEMMA HistoryInvariant == HistorySpec => []HistoryInv
<1>1. HistoryInit => HistoryInv
  <2> SUFFICES ASSUME HistoryInit PROVE HistoryInv
    OBVIOUS
  <2>1. chain = <<>> /\ pool = {} /\ firstPages = [a \in Addresses |-> NoPage] /\ history = Idle0
    BY DEF HistoryInit
  <2>2. \A a : Confirmed(a) = <<>>
    BY <2>1, NothingConfirmed, ConfirmedHere
  <2>3. ChainInv
    <3>1. Ordered(<<>>)
      BY DEF Ordered
    <3>2. chain \in Seq(Txs) /\ IsInjective(chain) /\ pool \subseteq Txs \ ToSet(chain)
      BY <2>1 DEF IsInjective
    <3> QED BY <2>2, <3>1, <3>2 DEF ChainInv
  <2>4. PartOf(<<>>, <<>>)
    <3>1. <<>> \in Seq(Txs)
      OBVIOUS
    <3> QED BY <3>1, NothingIsPart
  <2>5. PagesInv
    BY <2>1, <2>2, <2>4 DEF PagesInv, NoPage, Page
  <2>6. Unread \in Given /\ GivenInv(Unread, <<>>)
    BY <2>4, HistoryAssumption DEF Unread, Given, GivenInv
  <2>7. RequestInv
    BY <2>1, <2>2, <2>6 DEF RequestInv, ResultInv, Idle0, NoResult
  <2> QED BY <2>3, <2>5, <2>7 DEF HistoryInv
<1>2. HistoryInv /\ [HistoryNext]_historyVars => HistoryInv'
  <2> SUFFICES ASSUME HistoryInv, [HistoryNext]_historyVars PROVE HistoryInv'
    OBVIOUS
  <2>1. ASSUME NEW t \in Txs, Enter(t) PROVE HistoryInv'
    BY <2>1, EnterKeeps
  <2>2. ASSUME NEW t \in Txs, Mine(t) PROVE HistoryInv'
    BY <2>2, MineKeeps
  <2>3. CASE StartHistory
    BY <2>3, StartHistoryKeeps
  <2>4. CASE ReadTip
    BY <2>4, ReadTipKeeps
  <2>5. CASE Finish
    BY <2>5, FinishKeeps
  <2>6. ASSUME NEW a \in Addresses, ReadFirstPage(a) PROVE HistoryInv'
    BY <2>6, ReadFirstPageKeeps
  <2>7. ASSUME NEW a \in Addresses, ReadNextPage(a) PROVE HistoryInv'
    BY <2>7, ReadNextPageKeeps
  <2>8. ASSUME NEW a \in Addresses, PageFails(a) PROVE HistoryInv'
    BY <2>8, PageFailsKeeps
  <2>9. ASSUME NEW a \in Addresses, PageExpires(a) PROVE HistoryInv'
    BY <2>9, PageExpiresKeeps
  <2>10. CASE UNCHANGED historyVars
    <3>1. UNCHANGED <<chain, pool, firstPages, history>> /\ pool' \subseteq Txs \ ToSet(chain)
      BY <2>10 DEF historyVars, HistoryInv, ChainInv
    <3> QED BY <3>1, ChainStays, PagesStay, RequestStays DEF HistoryInv
  <2> QED BY <2>1, <2>2, <2>3, <2>4, <2>5, <2>6, <2>7, <2>8, <2>9, <2>10 DEF HistoryNext
<1> QED BY <1>1, <1>2, PTL DEF HistorySpec

\* The chain, the cached pages and the request for the transactions of a
\* wallet keep their types.
THEOREM HistoryTypeCorrect == HistorySpec => []HistoryTypeOK
<1>1. HistoryInv => HistoryTypeOK
  <2> SUFFICES ASSUME HistoryInv PROVE HistoryTypeOK
    OBVIOUS
  <2>1. \A a \in Addresses : ToSet(firstPages[a].confirmed) \subseteq Txs
    BY DEF HistoryInv, PagesInv, Page, ToSet
  <2> QED BY <2>1 DEF HistoryInv, ChainInv, RequestInv, Given, HistoryTypeOK, ToSet
<1> QED BY <1>1, HistoryInvariant, PTL

\* Whatever is mined between the pages and however old the first one is, what
\* an address has given has no gap (fetchAddressTxsAllPages), and no
\* transaction is told more confirmations than it has (calculateConfirmations).
THEOREM HistoryNoGap == HistorySpec => []HistoryHasNoGap
<1>1. HistoryInv => HistoryHasNoGap
  <2> SUFFICES ASSUME HistoryInv PROVE HistoryHasNoGap
    OBVIOUS
  <2>1. ASSUME NEW a \in Addresses, NEW list, list = history.of[a].confirmed
        PROVE  \E i \in 0..(Len(Confirmed(a)) - Len(list)) : list = SubSeq(Confirmed(a), i + 1, i + Len(list))
    <3>1. PICK c : c = Confirmed(a)
      OBVIOUS
    <3>2. c \in Seq(Txs) /\ list \in Seq(Txs)
      BY <2>1, <3>1 DEF HistoryInv, ChainInv, Ordered, RequestInv, GivenInv, PartOf
    <3>3. PICK i \in Nat : PartFrom(list, c, i)
      BY <2>1, <3>1 DEF HistoryInv, RequestInv, GivenInv, PartOf
    <3>4. i \in 0..(Len(c) - Len(list)) /\ list = SubSeq(c, i + 1, i + Len(list))
      BY <3>2, <3>3, PartIsSubSeq
    <3> QED BY <3>1, <3>4
  <2>2. \A t \in history.result.list : history.result.confirmations[t] \in 0..(Len(chain) - Height(t) + 1)
    BY DEF HistoryInv, RequestInv, ResultInv
  <2> QED BY <2>1, <2>2, Zenon DEF HistoryHasNoGap
<1> QED BY <1>1, HistoryInvariant, PTL
=============================================================================
