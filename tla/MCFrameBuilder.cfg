CONSTANTS
  ByteBase = 4
  FrameSOF = 2
  FrameSizeMax = 9
  MsgSizeBase = 2
  MemSize = 10
  Header <- MCHeader
  Ids = {1, 2, 3}
  Encodable = {1, 3}
  Raws <- MCRaws
SPECIFICATION Spec
INVARIANTS
  TypeOK
  BuiltFrameReceivable
  MessagesIntact
PROPERTIES
  WritesWithinMax
