----------------------------- MODULE VaultAccess -----------------------------
(***************************************************************************)
(* Who may open the vault and when it closes: sessions (auth/sessions.ts), *)
(* login and logout (auth/routes.ts), the unlock route (vault/routes.ts),  *)
(* and unlockedVault, lastActivityMs and the auto-lock timer               *)
(* (vault/store.ts).  Time is counted in periods of the timer (a minute),  *)
(* and what is long ago is capped, so no clock grows.  What the vault      *)
(* holds is VaultStore's business: here it is open or not.                 *)
(***************************************************************************)
EXTENDS Naturals, FiniteSets

CONSTANTS
  Requests,      \* logins and unlocks that may be in flight
  Tokens,        \* session tokens
  SessionLife,   \* sessionTtlMs, in minutes
  AutoLock,      \* VAULT_AUTO_LOCK_MINUTES, 0 to disable
  MaxFailures, LockTicks   \* see AttemptLimiter

ASSUME AccessAssumption ==
  /\ SessionLife \in Nat \ {0}
  /\ AutoLock \in Nat
  /\ IsFiniteSet(Requests)
  /\ MaxFailures \in Nat \ {0}
  /\ LockTicks \in Nat \ {0}

VARIABLES
  life,         \* minutes each session has left, 0 when there is none
  exists,       \* wallets.enc has been written
  creating,     \* requests inside initVault, past its existence check
  unlocked,     \* unlockedVault is not null
  idle,         \* minutes since lastActivityMs
  due,          \* the timer's minute is over and its callback has not run
  opened,       \* history: minutes since the vault was last opened
  late,         \* history: unlocks and inits that were in flight at the last logout
  leaked,       \* history: the vault was opened by one of those
  loginCount, loginLock, loginChecking, loginBurst, loginWasLocked,   \* the login limiter
  unlockCount, unlockLock, unlockChecking, unlockBurst, unlockWasLocked   \* the unlock limiter

Logins == INSTANCE AttemptLimiter WITH
  count <- loginCount, lockLeft <- loginLock, checking <- loginChecking, burst <- loginBurst,
  wasLocked <- loginWasLocked

Unlocks == INSTANCE AttemptLimiter WITH
  count <- unlockCount, lockLeft <- unlockLock, checking <- unlockChecking, burst <- unlockBurst,
  wasLocked <- unlockWasLocked

loginVars  == <<loginCount, loginLock, loginChecking, loginBurst, loginWasLocked>>
unlockVars == <<unlockCount, unlockLock, unlockChecking, unlockBurst, unlockWasLocked>>
fileVars   == <<exists, creating>>
vaultVars  == <<unlocked, idle, opened, late, leaked>>
vars       == <<life, due, fileVars, vaultVars, loginVars, unlockVars>>

\* Ages above the limit are all alike.
Ages    == 0..(AutoLock + 1)
Older(age) == IF age > AutoLock THEN age ELSE age + 1

TypeOK ==
  /\ life \in [Tokens -> 0..SessionLife]
  /\ exists \in BOOLEAN
  /\ creating \subseteq Requests
  /\ unlocked \in BOOLEAN
  /\ idle \in Ages
  /\ due \in BOOLEAN
  /\ opened \in Ages
  /\ late \subseteq Requests
  /\ leaked \in BOOLEAN
  /\ Logins!LimiterTypeOK
  /\ Unlocks!LimiterTypeOK

\* lastActivityMs = 0: the last activity is long ago.
Init ==
  /\ life = [t \in Tokens |-> 0]
  /\ exists \in BOOLEAN
  /\ creating = {}
  /\ unlocked = FALSE
  /\ idle = AutoLock + 1
  /\ due = FALSE
  /\ opened = AutoLock + 1
  /\ late = {}
  /\ leaked = FALSE
  /\ Logins!LimiterInit
  /\ Unlocks!LimiterInit

LoggedIn == \E t \in Tokens : life[t] > 0
Free(r) == loginChecking[r] = "none" /\ unlockChecking[r] = "none" /\ r \notin creating

\* unlockVault and initVault set unlockedVault, and not lastActivityMs.
OpenVault(r) ==
  /\ unlocked' = TRUE
  /\ opened' = 0
  /\ leaked' = (r \in late)
  /\ UNCHANGED <<idle, late>>

-----------------------------------------------------------------------------
(* POST /api/auth/login *)

LoginStarts(r, answer) ==
  /\ Free(r)
  /\ Logins!Check(r, answer)
  /\ UNCHANGED <<life, due, fileVars, vaultVars, unlockVars>>

\* createSession under a fresh token.
LoginSucceeds(r, t) ==
  /\ Logins!Succeed(r)
  /\ life[t] = 0
  /\ life' = [life EXCEPT ![t] = SessionLife]
  /\ UNCHANGED <<due, fileVars, vaultVars, unlockVars>>

LoginFails(r) ==
  /\ Logins!Fail(r) \/ Logins!Abandon(r)
  /\ UNCHANGED <<life, due, fileVars, vaultVars, unlockVars>>

\* POST /api/auth/logout: with or without a session of its own.
Logout(t) ==
  /\ life' = [life EXCEPT ![t] = 0]
  /\ unlocked' = FALSE
  /\ late' = {r \in Requests : unlockChecking[r] # "none" \/ r \in creating}
  /\ leaked' = FALSE
  /\ UNCHANGED <<fileVars, idle, due, opened, loginVars, unlockVars>>

-----------------------------------------------------------------------------
(* POST /api/vault/unlock: the session is looked at once, at the start. *)

UnlockStarts(r, answer) ==
  /\ LoggedIn
  /\ Free(r)
  /\ Unlocks!Check(r, answer)
  /\ late' = late \ {r}
  /\ UNCHANGED <<life, due, fileVars, unlocked, idle, opened, leaked, loginVars>>

UnlockSucceeds(r) ==
  /\ exists
  /\ Unlocks!Succeed(r)
  /\ OpenVault(r)
  /\ UNCHANGED <<life, due, fileVars, loginVars>>

\* A wrong password counts, and so does an envelope or a plaintext without the
\* right fields ("Invalid vault ..."); no file or broken JSON does not.
UnlockFails(r) ==
  /\ (exists /\ Unlocks!Fail(r)) \/ Unlocks!Abandon(r)
  /\ UNCHANGED <<life, due, fileVars, vaultVars, loginVars>>

(* POST /api/vault/init: no limiter. *)

InitStarts(r) ==
  /\ LoggedIn
  /\ Free(r)
  /\ ~exists
  /\ creating' = creating \cup {r}
  /\ late' = late \ {r}
  /\ UNCHANGED <<life, due, exists, unlocked, idle, opened, leaked, loginVars, unlockVars>>

InitSucceeds(r) ==
  /\ r \in creating
  /\ exists' = TRUE
  /\ creating' = creating \ {r}
  /\ OpenVault(r)
  /\ UNCHANGED <<life, due, loginVars, unlockVars>>

InitFails(r) ==
  /\ r \in creating
  /\ creating' = creating \ {r}
  /\ UNCHANGED <<life, due, exists, vaultVars, loginVars, unlockVars>>

\* POST /api/vault/lock
Lock ==
  /\ LoggedIn
  /\ unlocked
  /\ unlocked' = FALSE
  /\ UNCHANGED <<life, due, fileVars, idle, opened, late, leaked, loginVars, unlockVars>>

\* Any wallet route: requireUnlockedVault stamps lastActivityMs.
UseVault ==
  /\ LoggedIn
  /\ unlocked
  /\ idle' = 0
  /\ UNCHANGED <<life, due, fileVars, unlocked, opened, late, leaked, loginVars, unlockVars>>

-----------------------------------------------------------------------------
\* Mutant: a session's time runs on below zero.
TickPastEnd ==
  /\ ~due
  /\ due' = TRUE
  /\ life' = [t \in Tokens |-> life[t] - 1]
  /\ idle' = Older(idle)
  /\ opened' = Older(opened)
  /\ IF loginLock > 0 THEN Logins!LimiterTick ELSE UNCHANGED loginVars
  /\ IF unlockLock > 0 THEN Unlocks!LimiterTick ELSE UNCHANGED unlockVars
  /\ UNCHANGED <<fileVars, unlocked, late, leaked>>

(* A minute passes.  The event loop serves a due timer before the next one *)
(* is due.                                                                 *)
Tick ==
  /\ ~due
  /\ due' = TRUE
  /\ life' = [t \in Tokens |-> IF life[t] > 0 THEN life[t] - 1 ELSE 0]
  /\ idle' = Older(idle)
  /\ opened' = Older(opened)
  /\ IF loginLock > 0 THEN Logins!LimiterTick ELSE UNCHANGED loginVars
  /\ IF unlockLock > 0 THEN Unlocks!LimiterTick ELSE UNCHANGED unlockVars
  /\ UNCHANGED <<fileVars, unlocked, late, leaked>>

\* Mutant: one minute late.
InactiveLate == AutoLock > 0 /\ idle > AutoLock + 1

\* Mutant: the timer looks after a vault only while somebody is logged in.
InactiveSession == AutoLock > 0 /\ idle > AutoLock /\ LoggedIn

\* The timer's condition: more than the limit since lastActivityMs.
Inactive == AutoLock > 0 /\ idle > AutoLock

TimerFires ==
  /\ due
  /\ due' = FALSE
  /\ unlocked' = (unlocked /\ ~Inactive)
  /\ UNCHANGED <<life, fileVars, idle, opened, late, leaked, loginVars, unlockVars>>

\* Everything but the file is in memory.
Restart ==
  /\ life' = [t \in Tokens |-> 0]
  /\ unlocked' = FALSE
  /\ idle' = AutoLock + 1
  /\ due' = FALSE
  /\ opened' = AutoLock + 1
  /\ late' = {}
  /\ leaked' = FALSE
  /\ creating' = {}
  /\ UNCHANGED exists
  /\ Logins!LimiterRestart
  /\ Unlocks!LimiterRestart

Next ==
  \/ \E r \in Requests :
       \/ \E answer \in {"right", "wrong"} : LoginStarts(r, answer) \/ UnlockStarts(r, answer)
       \/ \E t \in Tokens : LoginSucceeds(r, t)
       \/ LoginFails(r)
       \/ UnlockSucceeds(r)
       \/ UnlockFails(r)
       \/ InitStarts(r)
       \/ InitSucceeds(r)
       \/ InitFails(r)
  \/ \E t \in Tokens : Logout(t)
  \/ Lock
  \/ UseVault
  \/ Tick
  \/ TimerFires
  \/ Restart

\* Time passes and the event loop runs the timers that are due.
Spec == Init /\ [][Next]_vars /\ WF_vars(Tick) /\ WF_vars(TimerFires)

-----------------------------------------------------------------------------
(* An open vault has been used within the limit or was opened since the    *)
(* timer last ran: no unlock that was in flight across a lock, a logout or *)
(* the timer's own callback escapes the limit by more than one period.     *)
NeverIdleBeyondLimit ==
  unlocked /\ AutoLock > 0 /\ ~due => idle <= AutoLock \/ opened = 0

(* A vault nobody uses gets locked, however sessions end and whatever      *)
(* unlocks are still on their way.                                         *)
UnusedVaultLocks ==
  AutoLock > 0 => []<>(~unlocked) \/ []<>(idle = 0)

(* README.md:33: "Logout locks the vault."  After a logout the vault is    *)
(* locked until an unlock that was asked for after it.                     *)
LogoutLocksVault == ~(unlocked /\ leaked)

(* README.md:32: "Vault auto-lock after inactivity."  The timer locks no   *)
(* vault that was opened or used within the limit.                         *)
AutoLockAfterInactivity ==
  [][TimerFires /\ unlocked /\ ~unlocked' => opened > AutoLock /\ idle > AutoLock]_vars
=============================================================================
