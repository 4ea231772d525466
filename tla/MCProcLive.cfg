SPECIFICATION LiveSpec
CONSTANTS
  NPROC = 3
  CPUs = {c1}
  Calls = {"fork", "exit", "wait", "kill"}
  KillsUnused = FALSE
  None = None
PROPERTIES
  AdoptedAreReaped
