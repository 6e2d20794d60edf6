CONSTANTS
  Reqs = {r1, r2, r3, r4}
  Conns = {c1, c2}
  None = None
  Files = {f1, f2}
  ScopeFiles = {f1}
  Kinds = {"query", "index", "ping", "stop"}
  MaxBusy = 1
  MaxHops = 2
  MaxLoads = 1
  Impatient = FALSE
  Edits = FALSE
SPECIFICATION Spec
SYMMETRY Symmetry
INVARIANTS ServedInTurn StopClosesEverything
PROPERTIES IdleNeverInterrupts
CHECK_DEADLOCK FALSE
