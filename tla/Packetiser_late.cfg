SPECIFICATION Spec
CONSTANTS
  WPL = 2
  PERIOD = 40
  OFFSET = 1
  COUNTMOD = 256
  LATMOD = 128
  BUFSIZE = 512
  Lists <- ShortLists
  LATEST = 4
  MAXFRAME = 4
INVARIANTS
  Heartbeat
