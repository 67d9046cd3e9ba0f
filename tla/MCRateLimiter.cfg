SPECIFICATION FairSpec
CONSTANTS
  Callers = {a, b}
  RetryInterval = 2
  RequestInterval = 1
  RecoveryInterval = 2
  ConsecutiveSuccesses = 2
  BackoffBase = 1
  BackoffMax = 3
  Paces = {0, 2}
  RetryAfters = {0, 3}
  MaxStreak = 3
  a = a
  b = b
INVARIANTS
  TypeOK
  RecoveryEarned
PROPERTIES
  HoldsKept
  EveryWaitEnds
