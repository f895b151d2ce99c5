SPECIFICATION MCSpec
CONSTANTS
  None = None
  Open = {s1}
  MaxBreaks = 1
  MaxGestures = 4
  Sessions = {s1, s2, s3}
  Cap = 2
  Covered = TRUE
  MaxMoves = 4
  MaxRings = 1
  Sizes = {1, 2}
  Alone = TRUE
  MaxEvents = 5
  Items <- MCItems
  Fifo = FALSE
  MaxWishes = 3
  MaxRefusals = 1
  MaxReloads = 1
  Waiting = {s1, s2}
  MaxCount = 2
  Hold = 1
  Period = 2
  ReloadCap = 1
  MaxFlights = 2
  MaxChanges = 2
  MaxFaults = 1
  MaxStir = 4
  MaxTrouble = 3
  MaxWork = 2
CHECK_DEADLOCK FALSE
INVARIANT WritesAreSafe
PROPERTIES NothingEndsQuietly OnlyTheFrontIsSeen HeldBeforeShown PageSettles
