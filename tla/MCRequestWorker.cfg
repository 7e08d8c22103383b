CONSTANTS
  single = single
  cut = cut
  long = long
  missing = missing
  Zero = Zero
  Blank = Blank
  Garbage = Garbage
  NoNumber = NoNumber
  NoAnalyzer = NoAnalyzer
  PACKET_SIZE = 3
  LONG_MAX = 7
  Files <- MCFiles
  Size <- MCSize
  Kind <- MCKind
  Names <- MCNames
  Numbers <- MCNumbers
SPECIFICATION Spec
INVARIANTS TypeOK ReplyShowsPacket NoGarbageSent ReportMatchesDump LosesOwnBlocksOnly
CHECK_DEADLOCK FALSE
