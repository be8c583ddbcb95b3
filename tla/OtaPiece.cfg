SPECIFICATION FairSpec
CONSTANTS
  Pieces = 3
  PieceLen = 4
  LastLen = 3
  HeadLen = 2
  Sizes = {1, 4, 5}
  Faults = {"info", "malloc", "download"}
  MaxBad = 2
INVARIANTS TypeOK PieceHandOff InOrderUnlessLost
PROPERTIES ReadReturns
CHECK_DEADLOCK FALSE
