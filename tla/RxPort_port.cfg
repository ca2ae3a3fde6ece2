SPECIFICATION FairSpec
CONSTANTS
  PARAMDEPTH = 1
  DATADEPTH = 3
  SYNC = 1
  Lens = {1, 2}
  MaxBytes = 3
INVARIANTS
  TypeOK
  NeverAppears
  CleanRestart
PROPERTIES
  ImplementsQueue
  FlushCompletes
  FramesServed
