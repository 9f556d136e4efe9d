SPECIFICATION FairSpec
CONSTANTS
  Pins = {p1, p2}
  Sites = {s1}
  MaxFails = 2
  FidoOps = {"changePin"}
  Failing = {}
  MaxCrashes = 0
  MaxEpochs = 1
  MaxWrong = 2
PROPERTY WipedAtLimit
