CONSTANTS
  Procs = {p1, p2, p3}
  None = None
  SerialStarts = TRUE
  PidReuse = TRUE
SPECIFICATION FairSpec
INVARIANTS TypeOK CleanStopLeavesNothing MutualExclusion RunningIsReachable
PROPERTIES RefusedOnlyForLive ImplementsSingleDaemon StaleLockNeverBlocks
CHECK_DEADLOCK FALSE
