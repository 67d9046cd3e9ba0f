SPECIFICATION FairSpec
CONSTANTS
  Entries = {a, b}
  Calls = {c, d}
  Torn = Torn
  End = End
  QueueSize = 1
  ShortWrites = FALSE
  MarksFail = FALSE
  MaxRuns = 2
INVARIANTS
  TypeOK
  DurableKept
PROPERTIES
  CloseEnds
  ArchivingSettles
  PromiseKept
CHECK_DEADLOCK FALSE
