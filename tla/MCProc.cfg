SPECIFICATION Spec
CONSTANTS
  NPROC = 3
  CPUs = {c1, c2}
  Calls = {"fork", "exit", "wait", "kill"}
  KillsUnused = FALSE
  None = None
SYMMETRY Symmetric
INVARIANTS
  TypeOK
  OneCpuPerStack
  NoOrphans
  NoLostWakeup
