SPECIFICATION FairSpec
CONSTANTS
  Hosts = {h1, h2}
  MaxDepth = 3
  MaxElements = 12
  MaxChannels = 2
  InitData = 57
  ContData = 59
  SeqNumbers = 10
  Capacity = 8191
  PingLens = {0, 58, 648}
  RawRequests <- SomeRequests
  InfoLen <- GetInfoLen
  ProperRequests <- HostRequests
  Parsed <- EveryRequest
  MinPins = {8, 300}
  Extras <- SomeExtras
  MaxRaw = 2
  MaxInits = 3
  MaxAnswers = 4
INVARIANTS
  TakenIsSent
  NewestKept
  CodecSound
 
CHECK_DEADLOCK FALSE
