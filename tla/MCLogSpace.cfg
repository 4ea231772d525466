SPECIFICATION Spec
CONSTANTS
  Procs = {p1, p2, p3}
  Blocks = {b1, b2, b3, b4, b5}
  Values = {v1}
  MAXOPBLOCKS = 2
  LOGBLOCKS = 5
  OpBlocks = 1
  NotCached = NotCached
  Torn = Torn
SYMMETRY Symmetric
INVARIANTS
  NoPanic
  SpaceReserved
  SleepersMustWait
