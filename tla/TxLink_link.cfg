SPECIFICATION FairSpec
CONSTANTS NPORTS=2 SEQ=4 LINE=1 MaxFrames=2 Stray={2}
  Ident <- LowBit
  Levels <- Settings
INVARIANTS TypeOK HoldsFrame RoundRobin
PROPERTIES ImplementsLink AllFlushed
