CONSTANTS
  Paths = {"app", "util", "alt"}
  Versions = {"main", "short", "func", "class", "other"}
  None = None
  Code <- MCCode
  Lookup <- MCLookup
  Relative = {"./util"}
  Stdlib = {"print"}
  Variants <- MCVariants
  Start <- MCStart
  Git = TRUE
  MaxEdits = 3
  MaxIndexes = 2
SPECIFICATION Spec
INVARIANTS CacheSound
CHECK_DEADLOCK FALSE
