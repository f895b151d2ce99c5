SPECIFICATION Spec
CONSTANTS
  Sids = {s1}
  Convs = {}
  NoSid = NoSid
  HistoryMax = 2
  Clients = {}
  NPids = 2
  Reports = {}
  Teles = {}
  Outputs = {}
CHECK_DEADLOCK FALSE
INVARIANT NothingOutlivesBackend
