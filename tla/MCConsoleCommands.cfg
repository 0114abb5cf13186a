CONSTANTS
  Messages = {"param", "encrypt"}
  SameStruct = {"param"}
  Fields = {"f", "g"}
  low = low
  high = high
  fine = fine
  Values = {low, high, fine}
  Zero = zero
  Misread = misread
  Rounded <- MCRounded
  MaxCommands = 3
  MaxChanges = 1
SPECIFICATION CommandsSpec
INVARIANTS
  NothingSilentlyWritten
PROPERTIES
  UpToDateWriteExact
CHECK_DEADLOCK FALSE
