CONSTANTS
  Paths = {"app", "util", "alt"}
  Versions = {"main", "short", "func", "class", "other"}
  None = None
  Code <- MCCode
  Lookup <- MCLookup
  Relative = {"./util"}
  Stdlib = {"print"}
  Variants <- MCVariants
  Start <- MCStart
  Git = FALSE
  MaxEdits = 3
  MaxIndexes = 2
SPECIFICATION FairSpec
INVARIANTS TypeOK CacheSound WatcherConverges ResolveIdempotent
PROPERTIES WatcherCatchesUp LinksSound ImplementsMirror
CHECK_DEADLOCK FALSE
