CONSTANTS
  Requests = {r1, r2}
  Tokens = {t1}
  SessionLife = 2
  AutoLock = 1
  MaxFailures = 2
  LockTicks = 1
SPECIFICATION Spec
PROPERTIES
  AutoLockAfterInactivity
