SPECIFICATION Spec
CONSTANTS
  CPUS = {0, 1}
  MAX_TASKS = 2
  Stacks = {s1}
  BootStack = boot
  Null = null
  IrqOnCalls = {}
  HandoffRace = TRUE
INVARIANT
  OneCpuPerStack
