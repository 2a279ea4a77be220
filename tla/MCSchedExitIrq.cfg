SPECIFICATION FairSpec
CONSTANTS
  CPUS = {0, 1}
  MAX_TASKS = 2
  Stacks = {s1}
  BootStack = boot
  Null = null
  IrqOnCalls = {"exit"}
  HandoffRace = FALSE
PROPERTY
  OwnEntryOnly
