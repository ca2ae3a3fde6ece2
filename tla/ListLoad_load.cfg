SPECIFICATION FairSpec
CONSTANTS
  Det = {0, 1}
  LEN = 2
  DEPTH = 1
  FIFOSIZE = 4
  DMASIZE = 2
  LAG = 2
  SPACING = 3
  MINFRAME = 4
  NWORDS = 8
  RAMSIZE = 6
INVARIANTS
  TypeOK
  RamInOrder
  FrameMovesOn
  NoWordVanishes
PROPERTIES
  Delivered
CHECK_DEADLOCK FALSE
