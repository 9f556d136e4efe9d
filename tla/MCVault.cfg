SPECIFICATION FairSpec
CONSTANTS
  Pins = {p1, p2}
  Sites = {s1}
  MaxFails = 2
  FidoOps = {"setPin", "changePin", "reset"}
  Failing = {"count", "remove"}
  MaxCrashes = 1
  MaxEpochs = 1
  MaxWrong = 2
INVARIANTS
  SessionHolds
  WipeForgets
PROPERTY LoginLimitWipes
