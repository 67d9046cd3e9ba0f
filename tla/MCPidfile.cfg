SPECIFICATION FairSpec
CONSTANTS
  Processes = {p, q, r}
  Pids = {1, 2, 3}
  Stranger = Stranger
  Nobody = Nobody
  None = None
INVARIANTS
  TypeOK
  SignalsHandOver
  RecordsServers
PROPERTIES
  PredecessorTold
