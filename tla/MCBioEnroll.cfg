SPECIFICATION FairSpec
CONSTANTS
  Fingers = {f1, f2}
  MaxTemplates = 2
  Required = 2
  Failing = {"read", "open", "write", "remove"}
  MaxCommands = 4
  MaxCliCommands = 1
  MaxCrashes = 1
INVARIANT SensorAgrees
PROPERTIES
  NoOverwrite
  CommandEnds
CHECK_DEADLOCK FALSE
