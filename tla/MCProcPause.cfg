SPECIFICATION Spec
CONSTANTS
  NPROC = 3
  CPUs = {c1}
  Calls = {"fork", "exit", "wait", "kill", "pause"}
  KillsUnused = FALSE
  None = None
INVARIANTS
  NoLostWakeup
