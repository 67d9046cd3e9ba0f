SPECIFICATION FairSpec
CONSTANTS
  Samples = {}
  Events = {e}
  Uses = {}
  Prunes = {}
  Reads = {p}
  Closers = {c, d}
  Starter = Starter
  Owner = Owner
  MaxForeign = 1
  MaxCancelled = 1
PROPERTIES
  EveryCallEnds
CHECK_DEADLOCK FALSE
