SPECIFICATION FairSpec
CONSTANTS
  Sids = {s1, s2}
  Clients = {c1}
  Reaper = reaper
  Nobody = nobody
  Viewers = {}
  MaxTerms = 2
  MaxSeq = 1
  Cap = 1
  Backlog = 2
  ChanCap = 1
PROPERTIES
  StartReturns
CHECK_DEADLOCK FALSE
