SPECIFICATION MCSpec
CONSTANTS
  Outer <- MCOuter
  Inner <- MCInner
  AFile <- MCAFile
  AFolder <- MCAFolder
  MaxRequests = 2
  MaxNodes = 4
  Dests = {d, e}
  Exclusive = TRUE
  MaxClones = 3
  Places = {d, e}
  NoValue = NoValue
  MaxOpens = 2
  MaxPicks = 2
  MaxSubmits = 1
  MaxOthers = 1
  Projects = {p1, p2}
  MaxUses = 3
  MaxEdits = 1
  MaxFlights = 2
  EntryNames = {1, 3}
  Roots <- MCRoots
  Fifo = TRUE
  MaxGestures = 3
  MaxTrouble = 4
  MaxWork = 3
  MaxWire = 3
CHECK_DEADLOCK FALSE
INVARIANTS FilesAreKept 
PROPERTIES AddingIsSafe StartsAsPicked 
