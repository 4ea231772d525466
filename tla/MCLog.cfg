SPECIFICATION LiveSpec
CONSTANTS
  Procs = {p1, p2}
  Blocks = {b1, b2}
  Values = {v1, v2}
  MAXOPBLOCKS = 3
  LOGBLOCKS = 6
  OpBlocks = 2
  NotCached = NotCached
  Torn = Torn
INVARIANTS
  TypeOK
  LogInv
PROPERTIES
  ImplementsAtomicDisk
  CallsStart
  RecoveryCompletes
