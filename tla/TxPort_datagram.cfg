SPECIFICATION FairSpec
CONSTANTS
  FIFODEPTH = 2
  BUFLEN = 4
  SLOTLEN = 6
  WBYTES = 2
  SYNC = 1
  AckMode = FALSE
  MaxBytes = 6
INVARIANTS
  SpaceAccounting
  FramesIntact
  NothingDiscarded
PROPERTIES
  ImplementsQueue
  DisableCompletes
  EnableCompletes
