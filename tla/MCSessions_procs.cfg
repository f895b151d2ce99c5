SPECIFICATION Spec
CONSTANTS
  Sids = {s1, s2, s3}
  Convs = {v1}
  NoSid = NoSid
  HistoryMax = 2
  Clients = {}
  NPids = 3
  Reports = {}
  Teles = {}
  Outputs = {}
SYMMETRY Symmetry
CHECK_DEADLOCK FALSE
INVARIANTS TypeOK LiveEntryHasSession NoLeaderLeaked UserKillFollowedThrough
PROPERTY FirstStampWins
