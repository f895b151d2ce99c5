SPECIFICATION Spec
CONSTANTS
  s1 = s1
  s2 = s2
  fa = fa
  g = g
  d = d
  p = p
  None = None
  Sessions = {s1, s2}
  Files = {fa, g}
  Diffs = {d}
  Projects = {p}
  MaxTabs = 2
  MaxViews = 3
  Bags <- MCBags
  MaxGestures = 3
CHECK_DEADLOCK FALSE
INVARIANTS ArrangementSound ReloadShowsTheSame DropsUndone
PROPERTIES EditsKeepTabs
