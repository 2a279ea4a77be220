SPECIFICATION MCSpec
CONSTANTS
  CPUS = {0, 1}
  MAX_TASKS = 2
  Stacks = {s1}
  BootStack = boot
  Null = null
  IrqOnCalls = {}
  HandoffRace = FALSE
  low = low
  high1 = high1
  high2 = high2
  NOTHING = NOTHING
  RUNQ_CPUS = {0}
  RUNQ_TASKS <- MCRunqTasks
  Priority <- MCPriority
  AGE_STEP = 1
  AGE_MAX_BONUS = 3
  w1 = w1
  w2 = w2
  m = m
  c = c
  Tasks <- MCTasks
  Workers <- MCWorkers
  Main = m
  Waiter = c
  NoOne = NoOne
  MUTEX_INCS = 2
  WAIT_QUEUE_CAPACITY = 4
  MaxCount = 2
  InitCount = 0
  Aborts = TRUE
  LateAbort = FALSE
CHECK_DEADLOCK FALSE
INVARIANT SyncSound
PROPERTIES SleeperWakes    NoStarvation MutexMoves
  TestsFinish
