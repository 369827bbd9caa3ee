SPECIFICATION FairSpec
CONSTANTS
  ChanCap = 1
  Retain = 2
  MaxConns = 2
  MaxSeq = 3
INVARIANTS
  NoGapNoDuplicate
  EofIsComplete
  NoUseOfClosed
PROPERTIES
  StreamSpec
  ReadersReachEof
CHECK_DEADLOCK FALSE
