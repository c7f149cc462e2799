--------------------------- MODULE AttemptLimiter ----------------------------
(***************************************************************************)
(* auth/attempts.ts and vault/unlock-attempts.ts, the same procedure       *)
(* twice: a handler asks whether the key (address and user name) may try,  *)
(* awaits the slow password check (argon2 or scrypt), and records the      *)
(* outcome.  Requests that were let in together are all being checked when *)
(* the first of them fails.  One key is modelled: keys share nothing.      *)
(***************************************************************************)
EXTENDS Naturals, FiniteSets

CONSTANTS
  Requests,      \* requests that may be checked at once under the key
  MaxFailures,   \* maxFailures, 5 in the code
  LockTicks      \* lockMs, ten minutes in the code

ASSUME LimiterAssumption ==
  /\ IsFiniteSet(Requests)
  /\ MaxFailures \in Nat \ {0}
  /\ LockTicks \in Nat \ {0}

VARIABLES
  count,      \* failures on record, counted up to MaxFailures: more change nothing
  lockLeft,   \* time until lockedUntil, 0 when it is in the past
  checking,   \* the password each request waits on: none, the right or a wrong one
  burst,      \* history: failures since the last success, restart or end of a lock
  wasLocked   \* history: a lock has begun since the last success or restart

limiterVars == <<count, lockLeft, checking, burst, wasLocked>>

Answers == {"none", "right", "wrong"}

LimiterTypeOK ==
  /\ count \in 0..MaxFailures
  /\ lockLeft \in 0..LockTicks
  /\ checking \in [Requests -> Answers]
  /\ burst \in Nat
  /\ wasLocked \in BOOLEAN

LimiterInit ==
  /\ count = 0
  /\ lockLeft = 0
  /\ checking = [r \in Requests |-> "none"]
  /\ burst = 0
  /\ wasLocked = FALSE

\* Mutant: the lock is not looked at.
CheckUnlimited(r, answer) ==
  /\ checking[r] = "none"
  /\ checking' = [checking EXCEPT ![r] = answer]
  /\ UNCHANGED <<count, lockLeft, burst, wasLocked>>

\* Mutant: a request refused during a lock starts it again.
CheckExtending(r, answer) ==
  /\ checking[r] = "none"
  /\ checking' = IF lockLeft = 0 THEN [checking EXCEPT ![r] = answer] ELSE checking
  /\ lockLeft' = IF lockLeft = 0 THEN 0 ELSE LockTicks
  /\ UNCHANGED <<count, burst, wasLocked>>

\* assertLoginAllowed, assertVaultUnlockAllowed: a request that is refused
\* changes nothing.
Check(r, answer) ==
  /\ checking[r] = "none"
  /\ lockLeft = 0
  /\ checking' = [checking EXCEPT ![r] = answer]
  /\ UNCHANGED <<count, lockLeft, burst, wasLocked>>

\* recordLoginFailure: the record, lock and all, is replaced, so a failure
\* that was in flight when the lock began starts the lock again.
Fail(r) ==
  /\ checking[r] = "wrong"
  /\ checking' = [checking EXCEPT ![r] = "none"]
  /\ count' = IF count < MaxFailures THEN count + 1 ELSE count
  /\ lockLeft' = IF count' >= MaxFailures THEN LockTicks ELSE 0
  /\ burst' = burst + 1
  /\ wasLocked' = (wasLocked \/ lockLeft' > 0)

\* clearLoginFailures: the record goes, a lock in force included.
Succeed(r) ==
  /\ checking[r] = "right"
  /\ checking' = [checking EXCEPT ![r] = "none"]
  /\ count' = 0
  /\ lockLeft' = 0
  /\ burst' = 0
  /\ wasLocked' = FALSE

\* Some other error (no file, no record): neither counted nor cleared.
Abandon(r) ==
  /\ checking[r] # "none"
  /\ checking' = [checking EXCEPT ![r] = "none"]
  /\ UNCHANGED <<count, lockLeft, burst, wasLocked>>

\* Mutant: the record is removed when its lock ends.
TickForgetting ==
  /\ lockLeft > 0
  /\ lockLeft' = lockLeft - 1
  /\ count' = IF lockLeft' = 0 THEN 0 ELSE count
  /\ burst' = IF lockLeft' = 0 THEN 0 ELSE burst
  /\ UNCHANGED <<checking, wasLocked>>

\* Mutant: the time left of a lock in the past is negative.
TickPastEnd ==
  /\ lockLeft' = lockLeft - 1
  /\ burst' = IF lockLeft' = 0 THEN 0 ELSE burst
  /\ UNCHANGED <<count, checking, wasLocked>>

\* Nothing removes the record when its lock ends: the count stays.
LimiterTick ==
  /\ lockLeft > 0
  /\ lockLeft' = lockLeft - 1
  /\ burst' = IF lockLeft' = 0 THEN 0 ELSE burst
  /\ UNCHANGED <<count, checking, wasLocked>>

\* The records live in memory only.
LimiterRestart ==
  /\ count' = 0
  /\ lockLeft' = 0
  /\ checking' = [r \in Requests |-> "none"]
  /\ burst' = 0
  /\ wasLocked' = FALSE

LimiterNext ==
  \/ \E r \in Requests :
       \/ \E answer \in {"right", "wrong"} : Check(r, answer)
       \/ Fail(r)
       \/ Succeed(r)
       \/ Abandon(r)
  \/ LimiterTick
  \/ LimiterRestart

LimiterSpec == LimiterInit /\ [][LimiterNext]_limiterVars /\ WF_limiterVars(LimiterTick)

-----------------------------------------------------------------------------
(* What the limiter really promises about guessing: between two pauses of  *)
(* lockMs at most MaxFailures - 1 wrong passwords are learnt to be wrong   *)
(* plus one for every request that can be in flight.  With one request at  *)
(* a time that is MaxFailures; the code has no cap of its own on requests  *)
(* in flight.                                                              *)
BurstBounded == burst <= MaxFailures - 1 + Cardinality(Requests)

(* A lock that has ended gives the key no fresh allowance: until the right *)
(* password is given, no wrong one, in flight before the lock or asked     *)
(* after it, goes by without a new lock.                                   *)
NoFreshAllowance == wasLocked /\ lockLeft = 0 => burst = 0

(* Failures that were in flight when the lock began start it again, but no *)
(* new check begins during a lock, so every lock ends.                     *)
LockEnds == lockLeft > 0 ~> lockLeft = 0
=============================================================================
