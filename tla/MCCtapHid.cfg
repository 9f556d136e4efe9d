SPECIFICATION FairSpec
CONSTANTS
  Channels = {c1, c2}
  Cancellers = {c1}
  Lens = {0, 1, 2, 4, 5}
  InitData = 2
  ContData = 1
  MaxSeqNo = 1
  MaxMsg <- MCMaxMsg
  AllocOutcomes = {TRUE, FALSE}
  MaxTxn = 1
INVARIANTS
  MemorySafe
  NoTornCopy
  RequestIntact
PROPERTY CompletedIsAnswered
CHECK_DEADLOCK FALSE
