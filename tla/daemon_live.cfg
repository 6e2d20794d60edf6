CONSTANTS
  Reqs = {r1, r2}
  Conns = {c1, c2}
  None = None
  Files = {f1, f2}
  ScopeFiles = {f1}
  Kinds = {"query", "index", "rca", "stop"}
  MaxBusy = 2
  MaxHops = 1
  MaxLoads = 1
  Impatient = TRUE
  Edits = TRUE
SPECIFICATION FairSpec
INVARIANTS TypeOK MapsWork StopSparesRequests OnlyIndexUnwatches
PROPERTIES RequestsComplete StopCompletes
CHECK_DEADLOCK FALSE
