SPECIFICATION Spec
CONSTANTS
  Port = {1, 2}
  BLOCK = 1
  BLOCKS = 3
INVARIANTS
  TypeOK
  ListInOrder
  EveryRefillAsked
CHECK_DEADLOCK FALSE
