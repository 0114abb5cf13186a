CONSTANTS
  LINES_MAX = 2
  Lengths <- MCLengths
  Sizes <- MCSizes
  Steps = {1, 2}
  MaxScroll = 3
SPECIFICATION Spec
INVARIANTS
  PauseAsAsked
  ScreenIsCurrent
  LogKept
PROPERTIES
  ExitEnds
