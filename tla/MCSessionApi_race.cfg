SPECIFICATION ApiSpec
CONSTANTS
  Sids = {s1, s2}
  Convs = {v1}
  NoSid = NoSid
  NoKey = NoKey
  HistoryMax = 1
  Requests = {r1, r2}
  Clients = {}
  NPids = 3
  Reports = {}
  Teles = {}
  Outputs = {}
SYMMETRY Symmetry
CHECK_DEADLOCK FALSE
INVARIANT OneSessionPerConversation
