SPECIFICATION MCSpec
CONSTANTS
  PAGE_SIZE = 2
  KERNEL_ZONE = 4
  Memmaps <- MCMemmaps
  Sizes <- MCSizes
  c1 = c1
  c2 = c2
  CPUS = {c1, c2}
  TASKS = {1, 2}
  Shell = 1
  NFRAMES = 9
  LEVELS = 3
  KernelIdx = {9}
  Images <- MCImages
  StackPages <- MCStack
  UserHeap <- MCUHeap
  KernelHeap <- MCKHeap
  MaxAlloc = 2
  MaxCalls = 3
  Threads = {p, q}
  HDR = 32
  HEAP_PAGE = 128
  Requests = {0, 1, 40}
  HEAP_MAX = 256
  MaxOwned = 2
  VA = 16
  PG = 2
  USER_MAX = 8
  MAX_RANGE = 5
  Addrs = {0, 1, 3, 4, 7, 9, 14, 15}
  Lens = {0, 1, 2, 3, 5, 6}
  SMP_MAX_CPUS = 3
  MpTables <- MCMpTables
  BSP = 4
  BootModules = {"app", "png"}
  MaxBoots = 2
  Rates = {3, 5, 7}
  Second = 50
  QUANTUM = 20
  SPIN = 12
  BLINK = 25
  UPTIME = 50
  LWIP = 1
  TIMER_MAX_CALLBACKS = 8
  Sleeps = {2}
  MaxTicks = 8
  MaxChanges = 1
  low = low
  high1 = high1
  high2 = high2
  high3 = high3
  NOTHING = NOTHING
  RUNQ_CPUS = {0, 1}
  RUNQ_TASKS <- MCRunqTasks
  Priority <- MCPriority
  AGE_STEP = 1
  AGE_MAX_BONUS = 2
  DCPUS = {0, 1}
  WAKERS = {"wake1", "wake2"}
  PCPUS = {"p0", "p1"}
CHECK_DEADLOCK FALSE
INVARIANTS PoolSound  AddressesTrue HeapSound CopySound  ClockExact PanicShown
PROPERTIES PoolSpec PopsBest
