SPECIFICATION Spec
CONSTANTS
  Procs = {p1, p2, p3}
  NBUF = 2
  LogArea = {l1}
  Indirect = {i1}
  Bitmap = {m1}
  Others = {o1}
  MaxPins = 1
  Values = {v1, v2}
  None = None
SYMMETRY Symmetric
INVARIANTS
  TypeOK
  OneBufferPerBlock
  GetsWhatItAsked
  Coherent
  RefsCounted
  SleepersHaveHolder
  NoCircularWait
