----------------------------- MODULE FeeEstimates -----------------------------
(***************************************************************************)
(* Fee estimates (mempool/fees.ts): six paths that may hold a preset, then *)
(* two that hold the projected blocks, from which the presets are derived  *)
(* with the minimum fee of mempool's info.  Every request may fail or be   *)
(* answered with something else.  Fees are in thousandths of a sat per     *)
(* vbyte, the precision the code rounds to.                                *)
(***************************************************************************)
EXTENDS Integers, Sequences, SequencesExt

CONSTANTS
  Presets,      \* bound: presets the fee paths may answer, 0 for a fee that is not there
  BlockLists,   \* bound: projected blocks: sequences of [vsize, median, lowest]
  MinimumFees   \* bound: minimum fees of mempool's info

ASSUME FeesAssumption ==
  /\ \A p \in Presets : p \in [1..5 -> Nat]
  /\ BlockLists \subseteq Seq([vsize: Nat, median: Nat, lowest: Nat])
  /\ MinimumFees \subseteq Nat \ {0}

VARIABLE fees  \* the lookup: the next path, the blocks read, the estimates and their source

feeVars == <<fees>>

Candidates == <<"precise", "precise", "recommended", "recommended", "init-data", "init-data">>
NoPreset == [i \in 1..5 |-> 0]
NoBlocks == <<>>
At(stage, path) == [stage |-> stage, path |-> path, blocks |-> NoBlocks, estimates |-> NoPreset, source |-> "none"]

FeesTypeOK ==
  /\ fees.stage \in {"idle", "candidates", "blocks", "info", "done"}
  /\ fees.path \in 1..6
  /\ fees.estimates \in [1..5 -> Nat]
  /\ fees.source \in ToSet(Candidates) \cup {"none", "projected-blocks"}

FeesInit == fees = At("idle", 1)

-----------------------------------------------------------------------------
(* Presets *)

\* fastest, half hour, hour, economy, minimum: those that are there do not rise.
\* isRecommendedFeePresetConsistent looks at each and the one there before it.
Consistent(p) == \A i, j \in 1..5 : i < j /\ p[i] > 0 /\ p[j] > 0 => p[i] >= p[j]

HasAnyFee(p) == p # NoPreset

\* parseFeeEstimates, for a preset whose fees are positive or not there
Usable(p) == HasAnyFee(p) /\ Consistent(p)

-----------------------------------------------------------------------------
(* Projected blocks *)

Higher(a, b) == IF a > b THEN a ELSE b
Lower(a, b)  == IF a < b THEN a ELSE b

\* Math.round(n / d) and Math.ceil(n / d)
Rounded(n, d) == (2 * n + d) \div (2 * d)
RoundedUp(n, d) == (n + d - 1) \div d

\* optimizeProjectedBlockMedianFee: a block that is not full is worth the minimum,
\* the last one when nearly full a part of its median.
MedianFee(block, isLast, previous, minimum) ==
  LET doubled == IF previous = 0 THEN 2 * block.median ELSE block.median + previous
  IN  IF block.vsize <= 500000 \/ block.median < minimum THEN minimum
      ELSE IF block.vsize <= 950000 /\ isLast
      THEN Higher(Rounded(doubled * ((block.vsize - 500000) \div 1000), 1000), minimum)
      ELSE Higher(RoundedUp(doubled, 2), minimum)

\* The median of block i of the list, the minimum when there is no such block.
MedianAt(blocks, i, previous, minimum) ==
  IF i > Len(blocks) THEN minimum ELSE MedianFee(blocks[i], i = Len(blocks), previous, minimum)

\* Mutant: the later medians are not looked at again.
FallingOf(first, second, third, economy) == <<first, second, third, economy>>

\* No preset is below a later one.
Falling(first, second, third, economy) ==
  LET hour == Higher(third, economy)
      halfHour == Higher(second, hour)
  IN  <<Higher(first, halfHour), halfHour, hour, economy>>

\* calculateMempoolRecommendedFees
Recommended(blocks, minimum) ==
  LET first  == MedianAt(blocks, 1, 0, minimum)
      second == MedianAt(blocks, 2, first, minimum)
      third  == MedianAt(blocks, 3, second, minimum)
  IN  Append(Falling(first, second, third, Higher(minimum, Lower(2 * minimum, third))), minimum)

\* calculateMempoolUiFeeBuckets: half a sat more for the fastest, a quarter for the next.
Buckets(p) == <<Higher(p[1] + 500, 1000), Higher(p[2] + 250, 500), p[3], p[4], p[5]>>

\* readMinimumFeeFromBlocks
LowestFees(blocks) == {blocks[i].lowest : i \in DOMAIN blocks} \ {0}

\* parseProjectedMempoolFeeEstimates: the minimum is that of mempool's info, or
\* else the lowest fee of a block; 0 stands for no info.
Projected(blocks, info) ==
  IF info > 0 THEN Buckets(Recommended(blocks, info))
  ELSE IF LowestFees(blocks) = {} THEN NoPreset
  ELSE Buckets(Recommended(blocks, CHOOSE m \in LowestFees(blocks) : \A n \in LowestFees(blocks) : m <= n))

-----------------------------------------------------------------------------
(* The lookup *)

StartFees ==
  /\ fees.stage \in {"idle", "done"}
  /\ fees' = At("candidates", 1)

\* A path answers with a preset: taken, when it can be used.
CandidateAnswers ==
  /\ fees.stage = "candidates"
  /\ \E p \in Presets :
       /\ Usable(p)
       /\ fees' = [At("done", fees.path) EXCEPT !.estimates = p, !.source = Candidates[fees.path]]

\* It fails or cannot be used: the next path, and after the last the blocks.
CandidateFails ==
  /\ fees.stage = "candidates"
  /\ fees' = IF fees.path < 6 THEN At("candidates", fees.path + 1) ELSE At("blocks", 1)

\* lookupProjectedBlockFeeEstimate, on either path
BlocksAnswer ==
  /\ fees.stage = "blocks"
  /\ \E blocks \in BlockLists : fees' = [fees EXCEPT !.stage = "info", !.blocks = blocks]

NextBlocks == IF fees.path = 1 THEN At("blocks", 2) ELSE At("done", 2)

BlocksFail ==
  /\ fees.stage = "blocks"
  /\ fees' = NextBlocks

\* lookupMempoolInfo, whose two paths are one here: a minimum, or no info.
InfoAnswers ==
  /\ fees.stage = "info"
  /\ \E info \in MinimumFees \cup {0} :
       LET estimates == Projected(fees.blocks, info)
       IN  fees' = IF estimates = NoPreset THEN NextBlocks
                   ELSE [At("done", fees.path) EXCEPT !.estimates = estimates, !.source = "projected-blocks"]

(* The buttons of the page *)

Or(rate, other) == IF rate > 0 THEN rate ELSE other

\* selectFeePresetRate of what resolveFeeEstimateUiState keeps: nothing when there
\* are no estimates; a button whose rate is 0 is disabled.
PresetRate(p, kind) == CASE kind = "fastest" -> p[1]
                         [] kind = "medium" -> Or(p[2], p[3])
                         [] kind = "slow" -> Or(p[3], Or(p[4], p[5]))

FeesNext == StartFees \/ CandidateAnswers \/ CandidateFails \/ BlocksAnswer \/ BlocksFail \/ InfoAnswers

FeesSpec == FeesInit /\ [][FeesNext]_feeVars

\* Wherever the estimates come from, a faster button does not offer a lower rate
\* than a slower one, and those projected are all there (lookupFeeEstimateResult,
\* calculateMempoolUiFeeBuckets, selectFeePresetRate).
FeesFall ==
  LET rate(kind) == PresetRate(fees.estimates, kind)
      atLeast(fast, slow) == rate(fast) > 0 /\ rate(slow) > 0 => rate(fast) >= rate(slow)
  IN  /\ atLeast("fastest", "medium") /\ atLeast("medium", "slow") /\ atLeast("fastest", "slow")
      /\ fees.source = "projected-blocks" => \A i \in 1..5 : fees.estimates[i] >= fees.estimates[5] /\ fees.estimates[i] > 0
      /\ fees.source # "none" <=> fees.estimates # NoPreset
=============================================================================
