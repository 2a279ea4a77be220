SPECIFICATION MCSpec
CONSTANTS
  Apps = {app}
  Shells = {shell}
  NoTask = NoTask
  MAX_WINDOWS = 3
  TITLEBAR_H = 1
  CLOSE_BTN_W = 1
  FbWidth = 2
  FbHeight = 2
  Pixels <- MCPixels
  Geometries <- MCGeometries
  MaxZ = 4
  MaxPending = 1
  CreateAtLimit = FALSE
  Widgets = {"button", "textbox", "slider", "source", "target"}
  Class <- MCClass
  Menus = {"file", "edit"}
  Dialogs <- MCDialogs
  Places <- MCPlaces
  EDIT_MAX = 6
  BOX_MAX = 4
  VIS = 2
  ClickRows = {0, 1, 2}
  ClickCols = {0, 1, 3}
  Strings <- MCStrings
  ROW_H = 2
  BAR_W = 1
  HEADER_H = 2
  MIN_THUMB = 2
  LIST_H = 5
  MAX_ITEMS = 3
  Depths = {0, 1}
  Ys = {0, 3}
  UserNames = {"ana"}
  Passwords = {"p", "q"}
  MaxUsers = 3
  MaxShells = 3
  MaxBoots = 1
  a1 = a1
  a2 = a2
  ATASKS = {a1, a2}
  Texts = {"a.txt", "b.txt"}
  Images = {}
  MaxStarts = 2
  Programs = {1, 2}
  Faces = {1, 2}
  WinIds = {1, 2}
  Titles = {"A", "B"}
  POLL = 2
  SCAN = 2
  SUM = 65536
  CAP = 2
  MaxChanges = 2
  Nodes = {"row", "tab", "view", "wide", "tall"}
  NodeClass <- MCNodeClass
  Sizes <- MCSizes
  SizeOf <- MCSizeOf
  SPACING = 1
  STRIP_H = 1
  VIEW_BAR_W = 1
  MAX_CHILDREN = 2
  Points <- MCPoints
  MaxResizes = 1
  BarWidths = {8, 10}
  CellH = 2
  EDGE = 1
  GAP = 1
  MARGIN = 2
  MIN_W = 6
  LabelWidths = {1, 2}
  MAX_CELLS = 3
  SLIDER_W = 12
  HANDLE_W = 2
  Ranges <- MCRanges
  MIN_SCALE = 10
  MAX_SCALE = 400
  SCALE_STEP = 10
  NaturalWidths = {0, 64}
  Spots <- MCSpots
  RtcReaders = {"jam", "terminal"}
  JamTask = "jam"
  BootDates <- MCBootDates
  BootHour = 23
  WIB = 7
  MaxSeconds = 1
  MaxReads = 2
  Digits = {5}
  Ops = {1, 2, 3, 4}
  MAX_SHOWN = 300
  PLACES = 100
  MaxKeys = 6
  MaxParts = 10
  Letters = {"b"}
  CAPACITY = 2
  ZenFiles <- MCZenFiles
  MaxTyped = 5
  TermLines <- MCTermLines
  ShellLines <- MCShellLines
  RootNames <- MCRootNames
  AppNames <- MCAppNames
  TermContents <- MCTermContents
  OUT_MAX = 8
  READ_MAX = 3
  NAME_MAX = 5
  PATH_CAP = 11
  LINE_MAX = 7
  UINT_SPAN = 256
  Rates = {60, 100, 144}
  Tids = {7, 10}
  MaxCommands = 2
  MaxMeddling = 1
  ARENA <- MCArena
  MaxStrings = 2
  PAINT_W = 5
  PAINT_H = 4
  SOURCE_W = 3
  SOURCE_H = 3
  Lefts <- MCLefts
  Tops <- MCTops
  Widths = {1, 3, 4}
  Heights = {1, 2, 5}
  Clips <- MCClips
  FULL = 10
  RADIUS = 2
  CORNER = 1
  RINGS <- MCRings
  DROP = 1
  GLYPH_W = 2
  GLYPH_H = 2
  Words <- MCWords
  WORD = 64
  Lengths = {0, 2, 3, 5, 8}
  MaxCalls = 1
CHECK_DEADLOCK FALSE
INVARIANTS KwmSound ClickHitsWhatIsSeen RepaintComplete
     
