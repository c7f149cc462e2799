------------------------ MODULE AttemptLimiterProofs ------------------------
(***************************************************************************)
(* Proofs about AttemptLimiter for any limit, any length of the lock and   *)
(* any finite number of requests.  The argument: while the key is not      *)
(* locked its burst is its count; once it is locked no check begins, so    *)
(* each further failure uses up a request that was in flight.              *)
(***************************************************************************)
EXTENDS AttemptLimiter, FiniteSetTheorems, TLAPS

Checked == {r \in Requests : checking[r] # "none"}

\* The record and its lock agree.
Record ==
  /\ lockLeft > 0 => count = MaxFailures
  /\ wasLocked <=> count = MaxFailures

\* What a key that is not locked has used up.
Unlocked == lockLeft = 0 => burst = IF count = MaxFailures THEN 0 ELSE count

\* What a locked key has used up and may still use up.
Locked == lockLeft > 0 => burst + Cardinality(Checked) <= MaxFailures - 1 + Cardinality(Requests)

LimiterInv == LimiterTypeOK /\ Record /\ Unlocked /\ Locked

-----------------------------------------------------------------------------
(* The requests in flight are finitely many, at most all of them.          *)
LEMMA CheckedCard ==
  /\ IsFiniteSet(Checked)
  /\ Cardinality(Checked) \in Nat
  /\ Cardinality(Requests) \in Nat
  /\ Cardinality(Checked) <= Cardinality(Requests)
<1>1. IsFiniteSet(Requests) /\ Checked \subseteq Requests
  BY LimiterAssumption DEF Checked
<1> QED BY <1>1, FS_Subset, FS_CardinalityType

(* A request that ends leaves one fewer in flight.                         *)
LEMMA CheckEnds ==
  ASSUME LimiterTypeOK, NEW r \in Requests, checking[r] # "none",
         checking' = [checking EXCEPT ![r] = "none"]
  PROVE  /\ Cardinality(Checked') = Cardinality(Checked) - 1
         /\ checking' \in [Requests -> Answers]
<1>1. checking \in [Requests -> Answers]
  BY DEF LimiterTypeOK
<1>2. checking' \in [Requests -> Answers]
  BY <1>1 DEF Answers
<1>3. Checked' = Checked \ {r}
  BY <1>1 DEF Checked
<1>4. r \in Checked
  BY DEF Checked
<1> QED BY <1>2, <1>3, <1>4, CheckedCard, FS_RemoveElement

\* The state of a key that has no record.
Clean == count = 0 /\ lockLeft = 0 /\ burst = 0 /\ wasLocked = FALSE

(* A key without a record satisfies the invariant, whoever is checked.     *)
LEMMA CleanInv == Clean /\ checking \in [Requests -> Answers] => LimiterInv
<1> SUFFICES ASSUME Clean, checking \in [Requests -> Answers] PROVE LimiterInv
  OBVIOUS
<1>1. LimiterTypeOK
  <2>1. count \in 0..MaxFailures /\ lockLeft \in 0..LockTicks /\ burst \in Nat
    BY LimiterAssumption DEF Clean
  <2>2. wasLocked \in BOOLEAN
    BY DEF Clean
  <2> QED BY <2>1, <2>2 DEF LimiterTypeOK
<1>2. count # MaxFailures /\ ~(lockLeft > 0) /\ ~wasLocked
  BY LimiterAssumption DEF Clean
<1>3. Unlocked
  BY <1>2 DEF Clean, Unlocked
<1> QED BY <1>1, <1>2, <1>3 DEF LimiterInv, Record, Locked

LEMMA LimiterInitInv == LimiterInit => LimiterInv
<1> SUFFICES ASSUME LimiterInit PROVE LimiterInv
  OBVIOUS
<1>1. Clean
  BY DEF LimiterInit, Clean
<1>2. checking \in [Requests -> Answers]
  BY DEF LimiterInit, Answers
<1> QED BY <1>1, <1>2, CleanInv

(* A record that goes leaves the key clean.                                *)
LEMMA CleanNext == Clean' /\ checking' \in [Requests -> Answers] => LimiterInv'
<1>1. (Clean /\ checking \in [Requests -> Answers] => LimiterInv)'
  BY CleanInv, PTL
<1> QED BY <1>1

LEMMA CheckInv ==
  ASSUME LimiterInv, NEW r \in Requests, NEW a \in {"right", "wrong"}, Check(r, a)
  PROVE  LimiterInv'
<1>1. checking \in [Requests -> Answers] /\ checking' \in [Requests -> Answers]
  BY DEF LimiterInv, LimiterTypeOK, Check, Answers
<1> QED BY <1>1 DEF LimiterInv, LimiterTypeOK, Record, Unlocked, Locked, Check

LEMMA FailInv ==
  ASSUME LimiterInv, NEW r \in Requests, Fail(r)
  PROVE  LimiterInv'
<1>1. /\ Cardinality(Checked') = Cardinality(Checked) - 1
      /\ checking' \in [Requests -> Answers]
  BY CheckEnds DEF LimiterInv, Fail
<1>2. /\ count \in 0..MaxFailures /\ lockLeft \in 0..LockTicks /\ burst \in Nat
      /\ wasLocked \in BOOLEAN
      /\ MaxFailures \in Nat \ {0} /\ LockTicks \in Nat \ {0}
  BY LimiterAssumption DEF LimiterInv, LimiterTypeOK
<1>3. /\ count' \in 0..MaxFailures
      /\ lockLeft' \in 0..LockTicks
      /\ burst' = burst + 1
      /\ lockLeft' > 0 <=> count' = MaxFailures
      /\ count' = MaxFailures <=> count >= MaxFailures - 1
      /\ count' < MaxFailures => count' = count + 1
  BY <1>2 DEF Fail
<1>4. wasLocked' \in BOOLEAN /\ (wasLocked' <=> count' = MaxFailures)
  <2>1. wasLocked' = (wasLocked \/ lockLeft' > 0)
    BY DEF Fail
  <2>2. wasLocked => count' = MaxFailures
    <3>1. wasLocked => count = MaxFailures
      BY DEF LimiterInv, Record
    <3> QED BY <1>2, <1>3, <3>1
  <2> QED BY <1>3, <2>1, <2>2
<1>5. LimiterTypeOK' /\ Record'
  BY <1>1, <1>2, <1>3, <1>4 DEF LimiterTypeOK, Record
<1>6. Unlocked'
  BY <1>2, <1>3 DEF LimiterInv, Record, Unlocked
<1>7. Locked'
  <2>1. CASE lockLeft = 0
    <3>1. burst <= MaxFailures - 1
      BY <1>2, <2>1 DEF LimiterInv, Unlocked
    <3> QED BY <1>1, <1>2, <1>3, <3>1, CheckedCard DEF Locked
  <2>2. CASE lockLeft > 0
    <3>1. burst + Cardinality(Checked) <= MaxFailures - 1 + Cardinality(Requests)
      BY <2>2 DEF LimiterInv, Locked
    <3> QED BY <1>1, <1>2, <1>3, <3>1, CheckedCard DEF Locked
  <2> QED BY <1>2, <2>1, <2>2
<1> QED BY <1>5, <1>6, <1>7 DEF LimiterInv

LEMMA SucceedInv ==
  ASSUME LimiterInv, NEW r \in Requests, Succeed(r)
  PROVE  LimiterInv'
<1>1. checking' \in [Requests -> Answers]
  BY CheckEnds DEF LimiterInv, Succeed
<1>2. Clean'
  BY DEF Succeed, Clean
<1> QED BY <1>1, <1>2, CleanNext

LEMMA AbandonInv ==
  ASSUME LimiterInv, NEW r \in Requests, Abandon(r)
  PROVE  LimiterInv'
<1>1. /\ Cardinality(Checked') = Cardinality(Checked) - 1
      /\ checking' \in [Requests -> Answers]
  BY CheckEnds DEF LimiterInv, Abandon
<1> QED BY <1>1, CheckedCard, LimiterAssumption
        DEF LimiterInv, LimiterTypeOK, Record, Unlocked, Locked, Abandon

LEMMA TickInv ==
  ASSUME LimiterInv, LimiterTick
  PROVE  LimiterInv'
<1>1. Checked' = Checked
  BY DEF LimiterTick, Checked
<1> QED BY <1>1, LimiterAssumption
        DEF LimiterInv, LimiterTypeOK, Record, Unlocked, Locked, LimiterTick

LEMMA RestartInv ==
  ASSUME LimiterInv, LimiterRestart
  PROVE  LimiterInv'
<1>1. checking' \in [Requests -> Answers]
  BY DEF LimiterRestart, Answers
<1>2. Clean'
  BY DEF LimiterRestart, Clean
<1> QED BY <1>1, <1>2, CleanNext

LEMMA LimiterNextInv == LimiterInv /\ [LimiterNext]_limiterVars => LimiterInv'
<1> SUFFICES ASSUME LimiterInv, [LimiterNext]_limiterVars PROVE LimiterInv'
  OBVIOUS
<1>1. CASE UNCHANGED limiterVars
  BY <1>1 DEF limiterVars, LimiterInv, LimiterTypeOK, Record, Unlocked, Locked, Checked
<1>2. CASE LimiterNext
  BY <1>2, CheckInv, FailInv, SucceedInv, AbandonInv, TickInv, RestartInv DEF LimiterNext
<1> QED BY <1>1, <1>2

LEMMA LimiterAlways == LimiterSpec => []LimiterInv
BY LimiterInitInv, LimiterNextInv, PTL DEF LimiterSpec

(* What the invariant says of a burst.                                     *)
LEMMA LimiterBursts == LimiterInv => BurstBounded
<1> SUFFICES ASSUME LimiterInv PROVE BurstBounded
  OBVIOUS
<1>1. /\ count \in 0..MaxFailures /\ lockLeft \in 0..LockTicks /\ burst \in Nat
      /\ MaxFailures \in Nat \ {0} /\ LockTicks \in Nat \ {0}
  BY LimiterAssumption DEF LimiterInv, LimiterTypeOK
<1>2. CASE lockLeft = 0
  BY <1>1, <1>2, CheckedCard DEF LimiterInv, Unlocked, BurstBounded
<1>3. CASE lockLeft > 0
  BY <1>1, <1>3, CheckedCard DEF LimiterInv, Locked, BurstBounded
<1> QED BY <1>1, <1>2, <1>3

-----------------------------------------------------------------------------
(* The attempts Map holds what its types say, for every limit and lock.    *)
THEOREM LimiterTypeCorrect == LimiterSpec => []LimiterTypeOK
<1>1. LimiterInv => LimiterTypeOK
  BY DEF LimiterInv
<1> QED BY <1>1, LimiterAlways, PTL

(* However checks, failures, successes and locks interleave, at most       *)
(* MaxFailures - 1 + (requests in flight) wrong passwords are answered     *)
(* between two ends of a lock.                                             *)
THEOREM LimiterBounds == LimiterSpec => []BurstBounded
BY LimiterAlways, LimiterBursts, PTL

(* A lock that ended leaves its record at the limit: every later wrong     *)
(* password locks again until the right one is given.                      *)
THEOREM LimiterRelocks == LimiterSpec => []NoFreshAllowance
<1>1. LimiterInv => NoFreshAllowance
  BY DEF LimiterInv, Record, Unlocked, NoFreshAllowance
<1> QED BY <1>1, LimiterAlways, PTL
=============================================================================
