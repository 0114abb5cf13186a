CONSTANTS
  Messages = {"param"}
  SameStruct = {"param"}
  Fields = {"f", "g"}
  low = low
  high = high
  fine = fine
  Values = {low, high, fine}
  Zero = zero
  Misread = misread
  Rounded <- MCRounded
  MaxCommands = 3
  MaxChanges = 0
SPECIFICATION CommandsSpec
PROPERTIES
  WritesChangeOnlyGiven
CHECK_DEADLOCK FALSE
