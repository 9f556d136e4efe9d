SPECIFICATION FairSpec
CONSTANTS
  a1 = a1
  a2 = a2
  b1 = b1
  b2 = b2
  rpA = rpA
  rpB = rpB
  Hosts = {h1, h2}
  Rps = {rpA, rpB}
  Creds <- AllCreds
  RpOf <- CredRp
  Protected = {a1}
  Stored <- FirstStored
  Pins = {"1234", "5678"}
  ShortPins = {"12"}
  PinLimit = 1
  MaxCommands = 4
  MaxOthers = 1
INVARIANTS
  
  HostsKeptApart
PROPERTY EnumerationEnds
CHECK_DEADLOCK FALSE
