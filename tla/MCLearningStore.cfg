SPECIFICATION Spec
CONSTANTS
  Samples = {s}
  Events = {}
  Uses = {u}
  Prunes = {}
  Reads = {p, q}
  Closers = {c}
  Starter = Starter
  Owner = Owner
  MaxForeign = 1
  MaxCancelled = 1
SYMMETRY ReadSymmetry
INVARIANTS
  TypeOK
  NothingOnClosed
  NobodyStuck
PROPERTIES
  CacheNeverBack
  PromiseKept
CHECK_DEADLOCK FALSE
