SPECIFICATION Spec
CONSTANTS
  Sids = {s1}
  Clients = {c1}
  Reaper = reaper
  Nobody = nobody
  Viewers = {v1, v2}
  MaxTerms = 2
  MaxSeq = 2
  Cap = 2
  Backlog = 2
  ChanCap = 1
SYMMETRY Symmetry
INVARIANTS
  InOrder
  NewestSurvives
  NoOrphan
CHECK_DEADLOCK FALSE
