CONSTANTS
  tables = tables
  media = media
  empty = empty
  single = single
  Zero = Zero
  Blank = Blank
  Garbage = Garbage
  NoKey = NoKey
  NoAnalyzer = NoAnalyzer
  PACKET_SIZE = 3
  LONG_MAX = 100
  Files <- MCFiles
  Size <- MCSize
  Kind <- MCKind
  Numbers <- MCNumbers
  MaxLeaked = 2
  MaxText = 3
SPECIFICATION Spec
INVARIANT ReportFresh
CHECK_DEADLOCK FALSE
