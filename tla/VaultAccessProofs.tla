--------------------------- MODULE VaultAccessProofs --------------------------
(***************************************************************************)
(* Proofs about VaultAccess for any number of requests and sessions and    *)
(* any lengths of a session, a lock and the auto-lock.  The routes use     *)
(* their two limiters as AttemptLimiter has it, so what is proved there    *)
(* holds of logins and of unlocks, whatever else goes on.                  *)
(***************************************************************************)
EXTENDS VaultAccess, FiniteSetTheorems, TLAPS

LoginsP == INSTANCE AttemptLimiterProofs WITH
  count <- loginCount, lockLeft <- loginLock, checking <- loginChecking, burst <- loginBurst,
  wasLocked <- loginWasLocked

UnlocksP == INSTANCE AttemptLimiterProofs WITH
  count <- unlockCount, lockLeft <- unlockLock, checking <- unlockChecking, burst <- unlockBurst,
  wasLocked <- unlockWasLocked

\* The limits are those AttemptLimiter asks for.
LEMMA Limits == LoginsP!LimiterAssumption /\ UnlocksP!LimiterAssumption
  BY AccessAssumption DEF LoginsP!LimiterAssumption, UnlocksP!LimiterAssumption,
     IsFiniteSet, LoginsP!IsFiniteSet, UnlocksP!IsFiniteSet

-----------------------------------------------------------------------------
\* What a route does to the login limiter is a step of it, or none.
LEMMA LoginSteps == [Next]_vars => [LoginsP!LimiterNext]_(LoginsP!limiterVars)
<1> SUFFICES ASSUME [Next]_vars
             PROVE  LoginsP!LimiterNext \/ UNCHANGED loginVars
  BY DEF loginVars, LoginsP!limiterVars
<1>1. ASSUME NEW r \in Requests, NEW answer \in {"right", "wrong"}, LoginStarts(r, answer)
      PROVE  LoginsP!LimiterNext
  BY <1>1 DEF LoginStarts, Logins!Check, LoginsP!Check, LoginsP!LimiterNext
<1>2. ASSUME NEW r \in Requests, NEW t \in Tokens, LoginSucceeds(r, t)
      PROVE  LoginsP!LimiterNext
  BY <1>2 DEF LoginSucceeds, Logins!Succeed, LoginsP!Succeed, LoginsP!LimiterNext
<1>3. ASSUME NEW r \in Requests, LoginFails(r)
      PROVE  LoginsP!LimiterNext
  BY <1>3 DEF LoginFails, Logins!Fail, LoginsP!Fail, Logins!Abandon, LoginsP!Abandon, LoginsP!LimiterNext
<1>4. ASSUME Tick
      PROVE  LoginsP!LimiterNext \/ UNCHANGED loginVars
  BY <1>4 DEF Tick, Logins!LimiterTick, LoginsP!LimiterTick, LoginsP!LimiterNext
<1>5. ASSUME Restart
      PROVE  LoginsP!LimiterNext
  BY <1>5 DEF Restart, Logins!LimiterRestart, LoginsP!LimiterRestart, LoginsP!LimiterNext
<1>6. ASSUME NEW r \in Requests,
             \/ \E answer \in {"right", "wrong"} : UnlockStarts(r, answer)
             \/ UnlockSucceeds(r) \/ UnlockFails(r) \/ InitStarts(r) \/ InitSucceeds(r) \/ InitFails(r)
      PROVE  UNCHANGED loginVars
  BY <1>6 DEF UnlockStarts, UnlockSucceeds, UnlockFails, InitStarts, InitSucceeds, InitFails
<1>7. ASSUME (\E t \in Tokens : Logout(t)) \/ Lock \/ UseVault \/ TimerFires \/ UNCHANGED vars
      PROVE  UNCHANGED loginVars
  BY <1>7 DEF Logout, Lock, UseVault, TimerFires, vars
<1> QED BY <1>1, <1>2, <1>3, <1>4, <1>5, <1>6, <1>7 DEF Next

\* And the same of the unlock limiter.
LEMMA UnlockSteps == [Next]_vars => [UnlocksP!LimiterNext]_(UnlocksP!limiterVars)
<1> SUFFICES ASSUME [Next]_vars
             PROVE  UnlocksP!LimiterNext \/ UNCHANGED unlockVars
  BY DEF unlockVars, UnlocksP!limiterVars
<1>1. ASSUME NEW r \in Requests, NEW answer \in {"right", "wrong"}, UnlockStarts(r, answer)
      PROVE  UnlocksP!LimiterNext
  BY <1>1 DEF UnlockStarts, Unlocks!Check, UnlocksP!Check, UnlocksP!LimiterNext
<1>2. ASSUME NEW r \in Requests, UnlockSucceeds(r)
      PROVE  UnlocksP!LimiterNext
  BY <1>2 DEF UnlockSucceeds, Unlocks!Succeed, UnlocksP!Succeed, UnlocksP!LimiterNext
<1>3. ASSUME NEW r \in Requests, UnlockFails(r)
      PROVE  UnlocksP!LimiterNext
  BY <1>3 DEF UnlockFails, Unlocks!Fail, UnlocksP!Fail, Unlocks!Abandon, UnlocksP!Abandon, UnlocksP!LimiterNext
<1>4. ASSUME Tick
      PROVE  UnlocksP!LimiterNext \/ UNCHANGED unlockVars
  BY <1>4 DEF Tick, Unlocks!LimiterTick, UnlocksP!LimiterTick, UnlocksP!LimiterNext
<1>5. ASSUME Restart
      PROVE  UnlocksP!LimiterNext
  BY <1>5 DEF Restart, Unlocks!LimiterRestart, UnlocksP!LimiterRestart, UnlocksP!LimiterNext
<1>6. ASSUME NEW r \in Requests,
             \/ \E answer \in {"right", "wrong"} : LoginStarts(r, answer)
             \/ \E t \in Tokens : LoginSucceeds(r, t)
             \/ LoginFails(r) \/ InitStarts(r) \/ InitSucceeds(r) \/ InitFails(r)
      PROVE  UNCHANGED unlockVars
  BY <1>6 DEF LoginStarts, LoginSucceeds, LoginFails, InitStarts, InitSucceeds, InitFails
<1>7. ASSUME (\E t \in Tokens : Logout(t)) \/ Lock \/ UseVault \/ TimerFires \/ UNCHANGED vars
      PROVE  UNCHANGED unlockVars
  BY <1>7 DEF Logout, Lock, UseVault, TimerFires, vars
<1> QED BY <1>1, <1>2, <1>3, <1>4, <1>5, <1>6, <1>7 DEF Next

LEMMA LimitersInvariant == Spec => []LoginsP!LimiterInv /\ []UnlocksP!LimiterInv
<1>1. Init => LoginsP!LimiterInv /\ UnlocksP!LimiterInv
  <2>1. Init => LoginsP!LimiterInit /\ UnlocksP!LimiterInit
    BY DEF Init, Logins!LimiterInit, LoginsP!LimiterInit, Unlocks!LimiterInit, UnlocksP!LimiterInit
  <2> QED BY <2>1, Limits, LoginsP!LimiterInitInv, UnlocksP!LimiterInitInv
<1>2. LoginsP!LimiterInv /\ [Next]_vars => LoginsP!LimiterInv'
  BY LoginSteps, Limits, LoginsP!LimiterNextInv
<1>3. UnlocksP!LimiterInv /\ [Next]_vars => UnlocksP!LimiterInv'
  BY UnlockSteps, Limits, UnlocksP!LimiterNextInv
<1> QED BY <1>1, <1>2, <1>3, PTL DEF Spec

(* Between two ends of a lock no more wrong passwords are answered at the  *)
(* login, and no more at the unlock, than the limit and the requests that  *)
(* were in flight, whatever sessions, locks and restarts go on meanwhile.  *)
THEOREM AccessBursts == Spec => []Logins!BurstBounded /\ []Unlocks!BurstBounded
<1>1. LoginsP!LimiterInv => Logins!BurstBounded
  <2>1. LoginsP!LimiterInv => LoginsP!BurstBounded
    BY Limits, LoginsP!LimiterBursts
  <2>2. Logins!Cardinality(Requests) = LoginsP!Cardinality(Requests)
    BY DEF Logins!Cardinality, LoginsP!Cardinality
  <2> QED BY <2>1, <2>2 DEF Logins!BurstBounded, LoginsP!BurstBounded
<1>2. UnlocksP!LimiterInv => Unlocks!BurstBounded
  <2>1. UnlocksP!LimiterInv => UnlocksP!BurstBounded
    BY Limits, UnlocksP!LimiterBursts
  <2>2. Unlocks!Cardinality(Requests) = UnlocksP!Cardinality(Requests)
    BY DEF Unlocks!Cardinality, UnlocksP!Cardinality
  <2> QED BY <2>1, <2>2 DEF Unlocks!BurstBounded, UnlocksP!BurstBounded
<1> QED BY <1>1, <1>2, LimitersInvariant, PTL

-----------------------------------------------------------------------------
(* Sessions, vault, timer and limiters have their types.                   *)
THEOREM AccessTypeCorrect == Spec => []TypeOK
<1> DEFINE Own == /\ life \in [Tokens -> 0..SessionLife]
                  /\ exists \in BOOLEAN /\ creating \subseteq Requests
                  /\ unlocked \in BOOLEAN /\ idle \in Ages /\ due \in BOOLEAN
                  /\ opened \in Ages /\ late \subseteq Requests /\ leaked \in BOOLEAN
<1>1. Init => Own
  <2> SUFFICES ASSUME Init PROVE Own
    OBVIOUS
  <2>1. life \in [Tokens -> 0..SessionLife] /\ idle \in Ages /\ opened \in Ages
    BY AccessAssumption DEF Init, Ages
  <2>2. exists \in BOOLEAN
    BY DEF Init
  <2>3. unlocked \in BOOLEAN /\ due \in BOOLEAN /\ leaked \in BOOLEAN
    BY Zenon DEF Init
  <2>4. creating \subseteq Requests /\ late \subseteq Requests
    BY DEF Init
  <2> QED BY <2>1, <2>2, <2>3, <2>4
<1>2. Own /\ [Next]_vars => Own'
  <2> SUFFICES ASSUME Own, [Next]_vars PROVE Own'
    OBVIOUS
  <2>1. SessionLife \in Nat \ {0} /\ AutoLock \in Nat
    BY AccessAssumption
  <2>2. \A age \in Ages : Older(age) \in Ages
    BY <2>1 DEF Ages, Older
  <2>3. {0, AutoLock + 1} \subseteq Ages
    BY <2>1 DEF Ages
  <2>4. ASSUME NEW r \in Requests, NEW answer \in {"right", "wrong"}, LoginStarts(r, answer) \/ UnlockStarts(r, answer)
        PROVE  Own'
    BY <2>4 DEF LoginStarts, UnlockStarts, fileVars, vaultVars
  <2>5. ASSUME NEW r \in Requests, NEW t \in Tokens, LoginSucceeds(r, t)
        PROVE  Own'
    BY <2>1, <2>5 DEF LoginSucceeds, fileVars, vaultVars
  <2>6. ASSUME NEW r \in Requests, LoginFails(r) \/ UnlockFails(r) \/ InitStarts(r) \/ InitFails(r)
        PROVE  Own'
    BY <2>6 DEF LoginFails, UnlockFails, InitStarts, InitFails, fileVars, vaultVars
  <2>7. ASSUME NEW r \in Requests, UnlockSucceeds(r) \/ InitSucceeds(r)
        PROVE  Own'
    <3>1. OpenVault(r) /\ UNCHANGED <<life, due>>
      BY <2>7 DEF UnlockSucceeds, InitSucceeds
    <3>2. unlocked' \in BOOLEAN
      BY <3>1, Zenon DEF OpenVault
    <3>3. leaked' \in BOOLEAN
      BY <3>1, SMT DEF OpenVault
    <3>4. UNCHANGED fileVars \/ (exists' = TRUE /\ creating' = creating \ {r})
      BY <2>7 DEF UnlockSucceeds, InitSucceeds, fileVars
    <3>5. exists' \in BOOLEAN
      BY <3>4, Zenon DEF fileVars
    <3> QED BY <2>3, <3>1, <3>2, <3>3, <3>4, <3>5 DEF OpenVault, fileVars
  <2>8. ASSUME NEW t \in Tokens, Logout(t)
        PROVE  Own'
    <3>1. unlocked' \in BOOLEAN /\ leaked' \in BOOLEAN
      BY <2>8, Zenon DEF Logout
    <3>2. late' \subseteq Requests
      BY <2>8 DEF Logout
    <3>3. life' \in [Tokens -> 0..SessionLife]
      BY <2>1, <2>8 DEF Logout
    <3> QED BY <2>8, <3>1, <3>2, <3>3 DEF Logout, fileVars
  <2>9. ASSUME Lock \/ UseVault \/ TimerFires \/ UNCHANGED vars
        PROVE  Own'
    BY <2>3, <2>9 DEF Lock, UseVault, TimerFires, vars, fileVars, vaultVars
  <2>10. ASSUME Tick
         PROVE  Own'
    BY <2>1, <2>2, <2>10 DEF Tick, fileVars
  <2>11. ASSUME Restart
         PROVE  Own'
    <3>1. unlocked' \in BOOLEAN /\ due' \in BOOLEAN /\ leaked' \in BOOLEAN
      BY <2>11, Zenon DEF Restart
    <3>2. life' \in [Tokens -> 0..SessionLife]
      BY <2>1, <2>11 DEF Restart
    <3> QED BY <2>3, <2>11, <3>1, <3>2 DEF Restart
  <2> QED BY <2>4, <2>5, <2>6, <2>7, <2>8, <2>9, <2>10, <2>11 DEF Next
<1>3. LoginsP!LimiterInv /\ UnlocksP!LimiterInv => Logins!LimiterTypeOK /\ Unlocks!LimiterTypeOK
  BY DEF LoginsP!LimiterInv, UnlocksP!LimiterInv, Logins!LimiterTypeOK, LoginsP!LimiterTypeOK,
     Unlocks!LimiterTypeOK, UnlocksP!LimiterTypeOK, Logins!Answers, LoginsP!Answers,
     Unlocks!Answers, UnlocksP!Answers
<1>4. Own /\ Logins!LimiterTypeOK /\ Unlocks!LimiterTypeOK => TypeOK
  BY DEF TypeOK
<1>5. Spec => []Own
  BY <1>1, <1>2, PTL DEF Spec
<1> HIDE DEF Own
<1> QED BY <1>3, <1>4, <1>5, LimitersInvariant, PTL

(* No open vault escapes the auto-lock by more than one period of the      *)
(* timer: it has been used within the limit, or opened since the timer     *)
(* last ran, whatever unlocks, inits, logouts and sessions interleave.     *)
THEOREM AccessNeverIdleBeyondLimit == Spec => []NeverIdleBeyondLimit
<1>1. Init => NeverIdleBeyondLimit
  BY DEF Init, NeverIdleBeyondLimit
<1>2. TypeOK /\ NeverIdleBeyondLimit /\ [Next]_vars => NeverIdleBeyondLimit'
  <2> SUFFICES ASSUME TypeOK, NeverIdleBeyondLimit, [Next]_vars,
                      unlocked', AutoLock > 0, ~due'
               PROVE  idle' <= AutoLock \/ opened' = 0
    BY DEF NeverIdleBeyondLimit
  <2>1. AutoLock \in Nat /\ idle \in Nat
    BY AccessAssumption DEF TypeOK, Ages
  <2>2. ASSUME NEW r \in Requests,
               \/ \E answer \in {"right", "wrong"} : LoginStarts(r, answer) \/ UnlockStarts(r, answer)
               \/ \E t \in Tokens : LoginSucceeds(r, t)
               \/ LoginFails(r) \/ UnlockFails(r) \/ InitStarts(r) \/ InitFails(r)
        PROVE  UNCHANGED <<unlocked, due, idle, opened>>
    BY <2>2 DEF LoginStarts, UnlockStarts, LoginSucceeds, LoginFails, UnlockFails, InitStarts, InitFails, vaultVars
  <2>3. ASSUME NEW r \in Requests, UnlockSucceeds(r) \/ InitSucceeds(r)
        PROVE  opened' = 0
    BY <2>3 DEF UnlockSucceeds, InitSucceeds, OpenVault
  <2>4. ASSUME (\E t \in Tokens : Logout(t)) \/ Lock \/ Tick \/ Restart
        PROVE  FALSE
    BY <2>4 DEF Logout, Lock, Tick, Restart
  <2>5. ASSUME UseVault
        PROVE  idle' <= AutoLock
    BY <2>1, <2>5 DEF UseVault
  <2>6. ASSUME TimerFires
        PROVE  idle' <= AutoLock
    <3>1. unlocked' => ~Inactive
      BY <2>6 DEF TimerFires
    <3> QED BY <2>1, <2>6, <3>1 DEF TimerFires, Inactive
  <2>7. ASSUME UNCHANGED vars
        PROVE  UNCHANGED <<unlocked, due, idle, opened>>
    BY <2>7 DEF vars, vaultVars
  <2> QED BY <2>2, <2>3, <2>4, <2>5, <2>6, <2>7 DEF Next, NeverIdleBeyondLimit
<1> QED BY <1>1, <1>2, AccessTypeCorrect, PTL DEF Spec
=============================================================================
