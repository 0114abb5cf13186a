CONSTANTS
  MaxSends = 2
  MaxReports = 10
  Reports <- MCReports
SPECIFICATION Spec
INVARIANTS
  AppAlive
  ResultIsFinal
  RecordingKept
  SceneFollowsReports
PROPERTIES
  OneEndsBoth
  SignalEnds
CHECK_DEADLOCK FALSE
