SPECIFICATION Spec
CONSTANTS
  NPROC = 4
  CPUs = {c1}
  Calls = {"fork", "exit", "wait"}
  KillsUnused = FALSE
  None = None
INVARIANTS
  NoOrphans
  NoLostWakeup
  HalfMadeIsPrivate
