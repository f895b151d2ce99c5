SPECIFICATION Spec
CONSTANTS
  MaxVersion = 2
  MaxBoots = 2
  MaxSetups = 1
  Crashes = FALSE
CHECK_DEADLOCK FALSE
INVARIANT InstallOutranksRestart
