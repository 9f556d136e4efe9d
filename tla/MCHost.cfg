SPECIFICATION Spec
CONSTANTS
  Logins = {l1, l2}
  Names = {n1}
  Vals = {1, 2}
  Phrases = {p1, p2}
  MaxImport = 2
  MaxOps = 2
  MaxEdits = 1
  MaxFaults = 1
  Tabs = {t1, t2}
  Recs = {r1, r2}
  MaxPages = 2
  MaxAsks = 2
  MaxLoss = 1
  Tasks = {cli, fido}
  GcmKeys = {k1, k2}
  MaxBoots = 2
  MaxNonces = 2
  Writers = {cli, fido}
  EventLens = {2, 4}
  Limit = 2
  MaxEvents = 2
INVARIANTS
  
  
  
  NoAbandonedImport
  
  
  
  WholeLines
CHECK_DEADLOCK FALSE
