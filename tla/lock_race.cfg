CONSTANTS
  Procs = {p1, p2}
  None = None
  SerialStarts = FALSE
  PidReuse = FALSE
SPECIFICATION Spec
INVARIANTS MutualExclusion
CHECK_DEADLOCK FALSE
