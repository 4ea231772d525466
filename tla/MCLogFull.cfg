SPECIFICATION Spec
CONSTANTS
  Procs = {p1, p2}
  Blocks = {b1, b2, b3}
  Values = {v1}
  MAXOPBLOCKS = 1
  LOGBLOCKS = 2
  OpBlocks = 1
  NotCached = NotCached
  Torn = Torn
INVARIANT
  NoPanic
