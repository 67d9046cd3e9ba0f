SPECIFICATION FairSpec
CONSTANTS
  MaxAttempts = 5
INVARIANTS
  TypeOK
  Owned
  DeadlineTold
PROPERTIES
  InterruptedEnds
\* A request that is gone takes no further step.
CHECK_DEADLOCK FALSE
