SPECIFICATION MCSpec
CONSTANTS
  Sids = {s1, s2}
  Convs = {v1}
  NoSid = NoSid
  NoKey = NoKey
  HistoryMax = 1
  Requests = {r1}
  Clients = {}
  NPids = 2
  Reports = {}
  Teles = {}
  Outputs = {}
  Viewers = {w1, w2, w3}
  MaxVersion = 2
  MaxBoots = 2
  MaxSetups = 2
  Crashes = TRUE
  Children = {c1, c2}
  NoChild = NoChild
CHECK_DEADLOCK FALSE
INVARIANTS LatestLaunchIsRemembered UpdateIsSound ScreensFollowTheBackend HandoffIsHonest
PROPERTIES IdleExitIsRight HandsOver NothingLingers
