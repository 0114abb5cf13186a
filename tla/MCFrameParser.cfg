CONSTANTS
  ByteBase = 4
  FrameSOF = 2
  FrameSizeMax = 9
  MsgSizeBase = 2
  HeaderSize = 1
  Payloads <- MCPayloads
  BuiltIn <- MCBuiltIn
  Extension <- MCExtension
SPECIFICATION Spec
INVARIANTS
  CallbackOrder
  EveryMessageOnce
