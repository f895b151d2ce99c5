SPECIFICATION MCSpec
CONSTANTS
  Versions = {1, 2}
  Uses = {u1, u2}
  Workers = {a, w}
  Workflows = {w}
  MaxLaunches = 2
  StaleAge = 1
  GraceAge = 1
  IdleAge = 1
  MaxUnread = 2
  None = None
  Tracked <- MCTracked
  Written = {"m1", "a2"}
  MaxLine = 1
  TailBytes = 2
  PerPoll = 2
  PerTick = 2
  MaxSize <- MCMaxSize
  MaxVersion = 3
  NoFile = NoFile
  TitleMax = 3
  MaxChunk = 2
  MaxOutput = 10
  NewlineAt = {2, 3, 6, 8}
  Cap = 5
  ReplayLines = 2
  ReadSize = 2
  DrainSize = 4
  DrainReads = 2
  Clients = {c1}
CHECK_DEADLOCK FALSE
INVARIANTS PairsAgree TurnIsHonest FoldsEveryLineOnce ScanHearsTheTerminal
PROPERTIES OutputIsWhole ObserversKeepUp
