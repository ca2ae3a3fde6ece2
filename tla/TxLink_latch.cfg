SPECIFICATION FairSpec
CONSTANTS NPORTS=2 SEQ=4 LINE=1 MaxFrames=1 Stray={0}
  Ident <- LowBit
  Levels <- Settings
PROPERTY LatchReleased
