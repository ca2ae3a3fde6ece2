SPECIFICATION Spec
CONSTANTS
  WPL = 8
  PERIOD = 800
  OFFSET = 2
  COUNTMOD = 256
  LATMOD = 65536
  BUFSIZE = 512
  Lists <- AllLists
  LATEST = 1
  MAXFRAME = 6
INVARIANTS
  TypeOK
  FrameMatchesEntry
  Heartbeat
  NothingLeftBehind
