CONSTANTS
  Spots = {p1, p2, p3, p4}
  UpSpots = {p4}
  BookRows = {1, 2}
  MaxSelect = 2
  Network <- MCNetwork
  Deepest = 5
  Hiding = {"c$"}
  Searches <- MCSearches
  Queries = {"", "x", "d"}
  Heights = {2, 4}
  Height0 = 4
  HostLists <- MCHostLists
  MaxIndexes = 2
  MaxSecond = 2
  Letters = {"a", "b"}
  WinSize = 3
  SizeBuf = 6
  StartTexts <- MCStartTexts
  Texts <- MCTexts
  Garbage <- MCGarbage
  Rtx = 2
  Rty = 2
  w1 = w1
  w2 = w2
  r1 = r1
  r2 = r2
  Writers = {w1, w2}
  Readers = {r1, r2}
  MaxFile = 1
  TextParts = 1
  MaxDepth = 3
  Trees <- MCTrees
  RunTogether <- MCRunTogether
  Base <- MCBase
  MarkedSets <- MCMarkedSets
  MaxCopies = 2
  MaxSpare = 5
  Words = {"a", "b"}
  Owner <- MCOwner
  MarkAccounts <- MCMarkAccounts
  None = "none"
  Rows = 2
  AllNames <- MCNames
  Groups <- MCGroups
  Hosts <- MCHosts
  Shares <- MCShares
  Files <- MCFiles
  Local <- MCLocal
  Links <- MCLinks
  Closed <- MCClosed
  Start <- MCStart
  StartOrder <- MCStartOrder
  LeftMarks <- MCLeftMarks
  RightMarks <- MCRightMarks
  Finds <- MCFinds
  Typed <- MCTyped
  Retry = 1
  NewDirs <- MCNewDirs
  Orders <- MCOrders
  Marking <- MCMarking
  NameLess <- MCNameLess
  ExtLess <- MCExtLess
  Restless = FALSE
  MaxTries = 2
SPECIFICATION WindowsSpec
SYMMETRY MailAlike
CHECK_DEADLOCK FALSE
INVARIANTS
  WindowsTypeOK
  PaintsInside
  BookmarksKept
  IndexedAreFiles
  RowsAreHits
  TellsOfIndex
  EditorShows
  ViewInside
  MailShown
  DialogsHold
  QueuesEach
  OutputIsBack
  AccountOfEach
  CursorInside
  PanelsComplete
  PanelsSorted
  ListIsOfPlace
  RetriesCounted
PROPERTIES
  ComesBack
  NothingElseDeleted
