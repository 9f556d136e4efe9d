SPECIFICATION FairSpec
CONSTANTS
  Tasks = {fido, cli}
  Rps = {r1, r2}
  Failing = {"open", "write", "memory"}
  MaxSaves = 3
  MaxCalls = 4
  MaxCrashes = 1
CHECK_DEADLOCK FALSE
INVARIANT RecordsSound
PROPERTIES
  ActsAsSet
  CallReturns
