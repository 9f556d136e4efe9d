SPECIFICATION Spec
CONSTANTS
  a1 = a1
  a2 = a2
  a3 = a3
  Arrays = {a1, a2, a3}
  Good = {a1, a2}
  x = x
  y = y
  Bytes = {x, y}
  Data <- MCData
  EmptyArray <- MCEmpty
  MinArray = 2
  MaxArray = 3
  MaxFragment = 2
  MaxCuts = 1
INVARIANTS InBounds StoredOneArray ReadIsServed
PROPERTY StoredWasConfirmed
