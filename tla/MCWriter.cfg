CONSTANTS
  MaxSends = 4
SPECIFICATION Spec
INVARIANTS
  OneWriteUnderWay
  LineInOrder
  AllTransmitted
PROPERTIES
  LineSpec
  Terminates
CHECK_DEADLOCK FALSE
