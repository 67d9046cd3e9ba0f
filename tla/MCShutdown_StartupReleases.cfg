SPECIFICATION FairSpec
CONSTANTS
  Clients = {a, b, c}
  Adapters = {"uvicorn", "router"}
INVARIANTS
  StartupReleases
