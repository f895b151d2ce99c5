SPECIFICATION Spec
CONSTANTS
  Sids = {s1}
  Convs = {}
  NoSid = NoSid
  HistoryMax = 2
  Clients = {c1, c2}
  NPids = 1
  Reports <- AllReports
  Teles = {t1}
  Outputs <- AllOutputs
CHECK_DEADLOCK FALSE
INVARIANTS ArtifactsOfRunningOnly WindowsKnowTheSession
