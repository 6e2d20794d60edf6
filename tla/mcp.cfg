CONSTANTS
  Viewers = {v1, v2}
  Tabs = {t1, t2}
  Symbols = {s1, s2}
  None = None
  Ports = {1, 2}
  MaxPosts = 2
  MaxActs = 5
  Calls = {c1, c2}
  Indexes = {1, 2, 3, 4}
  Tools <- SomeTools
SPECIFICATION McpFairSpec
INVARIANTS McpTypeOK IndexesAccounted TabsAgree ClosedOnlyWhenStale
PROPERTIES BridgeSettles
CHECK_DEADLOCK FALSE
