SPECIFICATION Spec
CONSTANTS
  FIFODEPTH = 2
  BUFLEN = 2
  SLOTLEN = 3
  WBYTES = 1
  SYNC = 1
  AckMode = TRUE
  MaxBytes = 3
INVARIANTS
  TypeOK
  CleanRestart
  NoRunDuringDiscard
PROPERTIES
  ImplementsQueue
