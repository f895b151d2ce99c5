SPECIFICATION MCSpec
CONSTANTS
  None = None
  Panes = {a}
  Patient = TRUE
  MaxContents = 3
  MaxBuilds = 2
  MaxCrashes = 1
  Pasted <- MCPasted
  MaxGestures = 3
  MaxPolls = 1
  MaxRestarts = 1
  Accounts = {a}
  Hurried = FALSE
  MaxUses = 3
  MaxTurns = 1
  DropNames = {1, 2}
  Dropped <- MCDropped
  MaxDrops = 2
  MaxOthers = 1
  Roots = {r1, r2}
  Branches = {main}
  PageSize = 1
  MaxHead = 3
  MaxMoves = 1
  MaxFails = 1
  MaxGlances = 3
  MaxBusy = 5
  MaxEvents = 4
  MaxTouches = 2
CHECK_DEADLOCK FALSE
INVARIANTS LatestQueryWins LogIsInOrder
PROPERTIES  ConnectionIsSound CopiesAreHonest PageSettles
