CONSTANTS
  ByteBase = 3
  FrameSOF = 2
  FrameSizeMax = 6
  WireLen = 8
SPECIFICATION FairSpec
INVARIANTS
  TypeOK
  NoFrameLost
  DeliveredGenuine
  CompleteFramesDelivered
  StallBounded
  ChunkingIrrelevant
PROPERTIES
  StreamSpec
CHECK_DEADLOCK FALSE
