CONSTANTS
  Viewers = {v1}
  Tabs = {t1}
  Symbols = {s1}
  None = None
  Ports = {1}
  MaxPosts = 1
  MaxActs = 6
SPECIFICATION ViewerSpec
PROPERTIES NotifiedShowsLatest
CHECK_DEADLOCK FALSE
