CONSTANTS
  Reqs = {r1, r2}
  Conns = {c1}
  None = None
  Files = {f1}
  ScopeFiles = {f1}
  Kinds = {"query", "index"}
  MaxBusy = 1
  MaxHops = 2
  MaxLoads = 1
  Impatient = FALSE
  Edits = TRUE
SPECIFICATION Spec
INVARIANTS RewriteUndisturbed
CHECK_DEADLOCK FALSE
