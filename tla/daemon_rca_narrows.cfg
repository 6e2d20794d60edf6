CONSTANTS
  Reqs = {r1, r2, r3}
  Conns = {c1}
  None = None
  Files = {f1, f2}
  ScopeFiles = {f1}
  Kinds = {"query", "rca"}
  MaxBusy = 1
  MaxHops = 1
  MaxLoads = 0
  Impatient = FALSE
  Edits = FALSE
SPECIFICATION Spec
INVARIANTS RcaKeepsWarmIndex
CHECK_DEADLOCK FALSE
