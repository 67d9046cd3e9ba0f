SPECIFICATION FairSpec
CONSTANTS
  Clients = {a, b, c}
  Adapters = {"uvicorn", "router"}
INVARIANTS
  TypeOK
  ServedWhileUp
  ReleasedOrReported
  CancelsAsAsked
PROPERTIES
  EscalationReaches
  DescentEnds
