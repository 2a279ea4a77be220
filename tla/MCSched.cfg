SPECIFICATION Spec
CONSTANTS
  CPUS = {0, 1}
  MAX_TASKS = 3
  Stacks = {s1, s2}
  BootStack = boot
  Null = null
  IrqOnCalls = {"create", "unblock"}
  HandoffRace = FALSE
SYMMETRY StackSymmetry
INVARIANTS NeverTwice OneCpuPerTask TasksKept StacksSound
