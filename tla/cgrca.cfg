CONSTANTS
  ScanFloor = 3
  MaxLookups = 2
  Worlds <- SomeWorlds
  Failures <- SomeFailures
  Options <- AllFlags
  Pulls <- SomePulls
  IndexScope <- WholeOf
  Analysis <- runRca
  Review <- analyzeWorktree
  Answer <- AnswerOf
  NoFile <- Nowhere
  Names = {2, 3}
  Paths = {"p"}
  NoPath = "none"
  Canonical = "canonical"
  MaxAnalyses = 1
  MaxQueries = 3
  Editors = {1, 2}
  Repos = {"r1", "r2"}
  Foreign = {"a"}
  MaxSaves = 1
  Symbols <- SomeSymbols
  Questions <- SomeQuestions
  Nodes <- SomeNodes
  Keys <- SomeKeys
  Topics <- SomeTopics
  Files <- SomeFiles
  Requests <- SomeRequests
SPECIFICATION MCSpec
CHECK_DEADLOCK FALSE
INVARIANTS
  InitKeepsOthers
  AnalysisExact
  ScopeExact
  QueriesAnswer
  RouteShortest
  TreeExact
