SPECIFICATION FairSpec
CONSTANTS
  Port = {1, 2}
  BLOCK = 2
  BLOCKS = 3
PROPERTY
  LowPortIsRefilled
CHECK_DEADLOCK FALSE
