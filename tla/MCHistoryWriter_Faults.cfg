SPECIFICATION Spec
CONSTANTS
  Entries = {a, b, f}
  Calls = {c}
  Torn = Torn
  End = End
  QueueSize = 2
  ShortWrites = TRUE
  MarksFail = TRUE
  MaxRuns = 3
SYMMETRY EntrySymmetry
INVARIANTS
  DamageConfined
  ArchivedReadable
CHECK_DEADLOCK FALSE
