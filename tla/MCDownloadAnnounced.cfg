SPECIFICATION Spec
CONSTANTS
  Peer = {o1, o2}
  Me = me
  FileLens = {4}
  PieceLen = 2
  IntMod = 32
  MaxReplace = 0
CHECK_DEADLOCK FALSE
INVARIANT AnnouncedAllPieces
