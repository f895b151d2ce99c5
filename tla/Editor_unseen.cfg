SPECIFICATION Spec
CONSTANTS
  None = None
  Panes = {a}
  Patient = TRUE
  MaxContents = 3
  MaxBuilds = 2
  MaxCrashes = 0
PROPERTY NoSaveOverTheUnseen
CHECK_DEADLOCK FALSE
