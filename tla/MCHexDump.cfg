CONSTANTS
  PACKET_SIZE = 188
  CONSOLE_COLS = 80
  SPACER = 15
  HEX_LINES = 12
  Space = Space
  Null = Null
SPECIFICATION Spec
INVARIANTS TypeOK WritesInLine DumpShowsBytes DumpHasHexLines
CHECK_DEADLOCK FALSE
