SPECIFICATION LiveSpec
CONSTANTS
  Readers = {r1}
  Writers = {w1, w2}
  Killable = {r1}
  Bytes = {a, b}
  PIPESIZE = 2
  WRAP = 4
  MaxN = 2
  None = None
INVARIANTS
  TypeOK
  SleepersMustWait
  FreedWhenUnused
PROPERTIES
  ImplementsFifo
  HangUpEndsCalls
