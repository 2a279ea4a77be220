SPECIFICATION PingAlone
CONSTANTS
  TotalSectors = 7
  FAT_PER_SECTOR = 5
  DIR_ENTRIES = 1
  COUNT_MOD = 4
  MaxCrashes = 2
  Paths <- MCPaths
  Contents <- MCContents
  VTASKS = {t1, t2}
  VFS_MAX_FDS = 2
  MIN_CAP = 1
  UINT32_MAX = 3
  Names <- MCNames
  Short <- MCShort
  OpenFlags <- MCFlags
  Counts = {2}
  MaxFileCalls = 3
  LBAS = {0, 1}
  Words = {0, 1}
  WORDS = 2
  POLLS = 2
  MaxOps = 2
  STASKS = {1, 2}
  KSOCK_MAX = 1
  KSOCK_RXBUF = 2
  PCBS = {1, 2}
  SegLens = {1, 2}
  MaxPeerBytes = 4
  MaxGen = 4
  PTASKS = {1, 2}
  CpuOf <- MCCpuOf
  Hosts = {"a", "b"}
  ECHOES = 2
  MaxSeq = 3
  NTX = 2
  NRX = 3
  MaxFrames = 5
  MaxSends = 4
  SCREEN_W = 3
  SCREEN_H = 2
  MAX_DIRTY_REGIONS = 2
  CursorWidth = 1
  CursorHeight = 1
  DrawRects <- MCDrawRects
  Colors = {1}
  MaxDraws = 2
  MaxMoves = 1
  QSIZE = 5
  FreePages <- MCFreePages
  QueuePages = 3
  BufferPages = 2
  Sizes = {1, 2}
  Screens <- MCScreens
  MaxCommands = 7
  MaxSurfaces = 2
  CALLERS = {"task1", "task2"}
  LIMIT = 2
  Lengths = {0, 1, 3}
  CallBuffers <- MCBuffers
  MaxInput = 1
  MaxSyscalls = 3
  ETASKS = {1, 2}
  Keys <- MCKeys
  EVENT_QUEUE_SIZE = 2
  KBD_BUFFER_SIZE = 2
  MaxKeys = 3
  MaxTasks = 2
  COLS = 2
  ROWS = 2
  TTY_HISTORY_LINES = 3
  TTY_MAX_COLS = 4
  Letters = {"a"}
  Deltas <- MCDeltas
  MaxChars = 5
  Width = 3
  Height = 2
  HALF = 4
  Motions <- MCMotions
  Owner <- MCOwner
  MaxPackets = 3
INVARIANT PbufFreedOnce
CHECK_DEADLOCK FALSE
