CONSTANTS
  Requests = {r1, r2, r3}
  MaxFailures = 3
  LockTicks = 2
SPECIFICATION LimiterSpec
INVARIANTS
  LimiterTypeOK
  BurstBounded
  NoFreshAllowance
PROPERTIES
  LockEnds
