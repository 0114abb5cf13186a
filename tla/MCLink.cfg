CONSTANTS
  ByteBase = 4
  FrameSOF = 2
  FrameSizeMax = 9
  MsgSizeBase = 2
  WireLen = 18
  HeaderSize = 1
  BuiltIn <- MCBuiltIn
  Extension <- MCExtension
  Headers <- MCHeaders
  Accepted <- MCAccepted
  Messages <- MCMessages
  Noise <- MCNoise
  MsgsSent = 2
  FramesSent = 2
SPECIFICATION LinkSpec
INVARIANTS
  EndToEnd
PROPERTIES
  EverythingArrives
CHECK_DEADLOCK FALSE
