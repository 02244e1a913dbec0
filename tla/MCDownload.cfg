SPECIFICATION FairSpec
CONSTANTS
  Peer = {me, o1, o2}
  Me = me
  FileLens <- MCFileLens
  PieceLen = 2
  IntMod = 32
  MaxReplace = 1
CHECK_DEADLOCK FALSE
INVARIANTS TypeOK PieceExclusive FinishedOnDisk AllOkComplete 
PROPERTIES FinishedStable Ends PoolSpec
