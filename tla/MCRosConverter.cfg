CONSTANTS
  MaxSends = 3
SPECIFICATION Spec
PROPERTIES
  NodeEnds
  CommandsArrive
CHECK_DEADLOCK FALSE
